---- MODULE Spec2Model ----
(***************************************************************************)
(* Model of the blog-wire publication pipeline: trend ingestion            *)
(* (services/trends_service.py), duplicate filter and persistence          *)
(* (services/blog_generator.py) and the daily run                          *)
(* (services/automation_service.py) over the Topic and Article tables      *)
(* (models.py).                                                            *)
(*                                                                         *)
(* Text is a sequence of one-character strings, so that lower-casing,      *)
(* slug derivation and the difflib similarity ratio are computed, not      *)
(* assumed.                                                                *)
(***************************************************************************)
EXTENDS Integers, Sequences, FiniteSets, TLC

VARIABLES
    topics,           \* table trending_topics: row id = index
    posts,            \* table blog_posts: row id = index
    clock,            \* current second of datetime.utcnow()
    pc,               \* position of the running operation ("idle" = none)
    count,            \* run_daily_blog_generation: argument count
    trending,         \* run: trending_topics returned by get_trending_topics
    idx,              \* save_trending_topics: position of the for loop
    session_new,      \* save_trending_topics: rows added to the session, not yet committed
    attempts,         \* run: attempts
    max_attempts,     \* run: max_attempts
    generated_posts,  \* run: generated_posts (ids of blog_posts rows)
    topic,            \* run: topic (id of the row returned by get_next_pending_topic, 0 = None)
    blog_data,        \* run: blog_data (title of the draft, NoData = None)
    save_ret,         \* last call of save_blog_post: its arguments, locals and return value
    selected,         \* _generate_from_custom_topics: selected_topics still to do
    raised,           \* run: TRUE when the except branch of the run was taken
    picked,           \* run: ids of the topics get_next_pending_topic returned in this run
    run_base,         \* run: number of blog_posts rows when the run started
    call,             \* last direct call of a service operation: its arguments and result
    custom_topics,    \* _generate_from_custom_topics: topics (the lines read from custom_topics.txt)
    affiliate_links,  \* table affiliate_links: row id = index
    blog_content,     \* run: blog_data['content'] (<<>> while there is no draft)
    other             \* a second invocation of the run in another thread or process: its locals while it waits

vars == <<topics, posts, clock, pc, count, trending, idx, session_new, attempts,
          max_attempts, generated_posts, topic, blog_data, save_ret, selected,
          raised, picked, run_base, call, custom_topics, affiliate_links,
          blog_content, other>>

----------------------------------------------------------------------------
(* Bounds of the model *)

MaxCount == 2
MaxBatch == 4
MaxTopics == 3
MaxPosts == 2
MaxSaved == 3
MaxClock == 2
MaxMarkRows == 2
MaxStored == 2
MaxTitleLen == 3
MaxLinkRows == 2

----------------------------------------------------------------------------
(* Text *)

UpperAlpha == <<"A","B","C","D","E","F","G","H","I","J","K","L","M",
                "N","O","P","Q","R","S","T","U","V","W","X","Y","Z">>
LowerAlpha == <<"a","b","c","d","e","f","g","h","i","j","k","l","m",
                "n","o","p","q","r","s","t","u","v","w","x","y","z">>
DigitChar == <<"0","1","2","3","4","5","6","7","8","9">>

Range(s) == {s[i] : i \in DOMAIN s}

Whitespace == {" ", "\t", "\n", "\r"}

LowerOf == [c \in Range(UpperAlpha) |->
               LowerAlpha[CHOOSE i \in DOMAIN UpperAlpha : UpperAlpha[i] = c]]

\* str.lower() on one character
LowerChar(c) == IF c \in DOMAIN LowerOf THEN LowerOf[c] ELSE c

\* str.lower()
Lower(s) == [i \in DOMAIN s |-> LowerChar(s[i])]

\* str(int(n)) for n >= 0
RECURSIVE IntToStr(_)
IntToStr(n) ==
    IF n < 10 THEN <<DigitChar[n + 1]>>
    ELSE IntToStr(n \div 10) \o <<DigitChar[(n % 10) + 1]>>

SlugChars == Range(LowerAlpha) \cup Range(DigitChar) \cup Whitespace \cup {"-"}

\* re.sub(r'[^a-z0-9\s-]', '', slug): the characters kept
SlugKept(c) == c \in SlugChars

\* [\s_]
IsSep(c) == c \in Whitespace \/ c = "_"

RECURSIVE DropSep(_)
DropSep(s) == IF s # <<>> /\ IsSep(Head(s)) THEN DropSep(Tail(s)) ELSE s


\* variant: every separator becomes a hyphen of its own
RECURSIVE CollapseSep_EachOne(_)
CollapseSep_EachOne(s) ==
    IF s = <<>> THEN <<>>
    ELSE IF IsSep(Head(s)) THEN <<"-">> \o CollapseSep_EachOne(Tail(s))
    ELSE <<Head(s)>> \o CollapseSep_EachOne(Tail(s))

\* re.sub(r'[\s_]+', '-', slug)
RECURSIVE CollapseSep(_)
CollapseSep(s) ==
    IF s = <<>> THEN <<>>
    ELSE IF IsSep(Head(s)) THEN <<"-">> \o CollapseSep(DropSep(Tail(s)))
    ELSE <<Head(s)>> \o CollapseSep(Tail(s))

RECURSIVE LStripHyphen(_)
LStripHyphen(s) == IF s # <<>> /\ Head(s) = "-" THEN LStripHyphen(Tail(s)) ELSE s

RECURSIVE RStripHyphen(_)
RStripHyphen(s) ==
    IF s # <<>> /\ s[Len(s)] = "-" THEN RStripHyphen(SubSeq(s, 1, Len(s) - 1)) ELSE s

\* BlogGenerator.create_slug
create_slug(title) ==
    RStripHyphen(LStripHyphen(CollapseSep(SelectSeq(Lower(title), SlugKept))))

\* str.split(): the set of whitespace-separated words
RECURSIVE SplitFrom(_, _, _)
SplitFrom(s, i, cur) ==
    IF i > Len(s) THEN (IF cur = <<>> THEN {} ELSE {cur})
    ELSE IF s[i] \in Whitespace
         THEN (IF cur = <<>> THEN {} ELSE {cur}) \cup SplitFrom(s, i + 1, <<>>)
         ELSE SplitFrom(s, i + 1, Append(cur, s[i]))

Words(s) == SplitFrom(s, 1, <<>>)

----------------------------------------------------------------------------
(* difflib.SequenceMatcher(None, a, b).ratio(), no junk, strings shorter   *)
(* than the 200 characters at which autojunk starts                        *)

\* length of the common run of a[i..ahi] and b[j..bhi]
RECURSIVE RunLen(_, _, _, _, _, _)
RunLen(a, i, ahi, b, j, bhi) ==
    IF i > ahi \/ j > bhi \/ a[i] # b[j] THEN 0
    ELSE 1 + RunLen(a, i + 1, ahi, b, j + 1, bhi)

\* find_longest_match: the longest block, earliest in a, then earliest in b
LongestMatch(a, alo, ahi, b, blo, bhi) ==
    LET cands == (alo..ahi) \X (blo..bhi)
        K == [p \in cands |-> RunLen(a, p[1], ahi, b, p[2], bhi)]
        best == CHOOSE p \in cands :
                    \A q \in cands :
                        \/ K[p] > K[q]
                        \/ K[p] = K[q] /\ p[1] < q[1]
                        \/ K[p] = K[q] /\ p[1] = q[1] /\ p[2] <= q[2]
    IN <<best[1], best[2], K[best]>>

\* get_matching_blocks: total size of the matching blocks
RECURSIVE MatchCount(_, _, _, _, _, _)
MatchCount(a, alo, ahi, b, blo, bhi) ==
    IF alo > ahi \/ blo > bhi THEN 0
    ELSE LET m == LongestMatch(a, alo, ahi, b, blo, bhi)
         IN IF m[3] = 0 THEN 0
            ELSE m[3] + MatchCount(a, alo, m[1] - 1, b, blo, m[2] - 1)
                      + MatchCount(a, m[1] + m[3], ahi, b, m[2] + m[3], bhi)

Matches(a, b) == MatchCount(a, 1, Len(a), b, 1, Len(b))

\* ratio() >= pct/100, ratio = 2.0*M/T and 1.0 when T = 0
RatioAtLeast(a, b, pct) ==
    IF Len(a) + Len(b) = 0 THEN TRUE
    ELSE 200 * Matches(a, b) >= pct * (Len(a) + Len(b))

----------------------------------------------------------------------------
(* Parsing of the generated text: the regular expressions of               *)
(* _parse_blog_content, matched as re.search matches them                  *)

Min(a, b) == IF a < b THEN a ELSE b

\* the text of a Python string literal, one character per element
Chars(str) ==
    CASE str = "**TITLE:**" -> <<"*","*","T","I","T","L","E",":","*","*">>
      [] str = "TITLE:" -> <<"T","I","T","L","E",":">>
      [] str = "**META_DESCRIPTION:**" ->
           <<"*","*","M","E","T","A","_","D","E","S","C","R","I","P","T","I","O","N",":","*","*">>
      [] str = "META_DESCRIPTION:" ->
           <<"M","E","T","A","_","D","E","S","C","R","I","P","T","I","O","N",":">>
      [] str = "**META_KEYWORDS:**" ->
           <<"*","*","M","E","T","A","_","K","E","Y","W","O","R","D","S",":","*","*">>
      [] str = "META_KEYWORDS:" ->
           <<"M","E","T","A","_","K","E","Y","W","O","R","D","S",":">>
      [] str = "**EXCERPT:**" -> <<"*","*","E","X","C","E","R","P","T",":","*","*">>
      [] str = "EXCERPT:" -> <<"E","X","C","E","R","P","T",":">>
      [] str = "**CONTENT:**" -> <<"*","*","C","O","N","T","E","N","T",":","*","*">>
      [] str = "**CONTENT" -> <<"*","*","C","O","N","T","E","N","T">>
      [] str = "CONTENT:" -> <<"C","O","N","T","E","N","T",":">>
      [] str = "---" -> <<"-","-","-">>
      [] str = "..." -> <<".",".",".">>
      [] str = "Everything You Need to Know About " ->
           <<"E","v","e","r","y","t","h","i","n","g"," ","Y","o","u"," ",
             "N","e","e","d"," ","t","o"," ","K","n","o","w"," ",
             "A","b","o","u","t"," ">>
      [] str = "\n\n" -> <<"\n","\n">>

\* the pattern pat stands in s at index i
\* the element of a set of one element; {e(x) : x \in {v}} computes v once
TheOne(S) == CHOOSE r \in S : TRUE

MatchAt(s, pat, i) ==
    /\ i >= 1
    /\ i + Len(pat) - 1 <= Len(s)
    /\ \A j \in 1..Len(pat) : s[i + j - 1] = pat[j]

\* least element of a non-empty set of integers
MinOf(S) == CHOOSE x \in S : \A y \in S : x <= y

\* greatest element of a non-empty set of integers
MaxOf(S) == CHOOSE x \in S : \A y \in S : y <= x

\* str.find(pat, from): the first index >= from where pat stands, 0 = not found
Find(s, pat, from) ==
    LET c == {i \in from..(Len(s) - Len(pat) + 1) : MatchAt(s, pat, i)}
    IN IF c = {} THEN 0 ELSE MinOf(c)

\* number of characters \s* can consume from index q on
RECURSIVE WsRun(_, _)
WsRun(s, q) ==
    IF q <= Len(s) /\ s[q] \in Whitespace THEN 1 + WsRun(s, q + 1) ELSE 0

\* str.strip()
RECURSIVE LStrip(_)
LStrip(s) == IF s # <<>> /\ Head(s) \in Whitespace THEN LStrip(Tail(s)) ELSE s

RECURSIVE RStrip(_)
RStrip(s) ==
    IF s # <<>> /\ s[Len(s)] \in Whitespace
    THEN RStrip(SubSeq(s, 1, Len(s) - 1)) ELSE s

\* variant: trailing whitespace is kept
Strip_LeftOnly(s) == LStrip(s)

Strip(s) == TheOne({RStrip(l) : l \in {LStrip(x) : x \in {s}}})

\* len(str.split()): number of whitespace-separated tokens, counted by the
\* characters that start one
WordCount(s) ==
    TheOne({Cardinality({i \in 1..Len(x) :
                            x[i] \notin Whitespace
                            /\ (i = 1 \/ x[i - 1] \in Whitespace)}) : x \in {s}})

\* s[:n]
Take(s, n) == SubSeq(s, 1, Min(n, Len(s)))

NoMatch == [found |-> FALSE, group |-> <<>>]

\* the end of the group of (.+?)$ under re.DOTALL starting at index start:
\* $ stands at the end of the string and before a newline that ends it
DollarEnd(s, start) ==
    IF s[Len(s)] = "\n" /\ Len(s) - 1 >= start THEN Len(s) - 1 ELSE Len(s)

\* \s*(.+?)(?:\n|$) from index q on, q the index after the label: \s* gives
\* back characters until a character other than a newline follows, and the
\* group runs to the end of that line
LineGroup(s, q) ==
    LET ks == {k \in 0..WsRun(s, q) : q + k <= Len(s) /\ s[q + k] # "\n"}
    IN IF ks = {} THEN NoMatch
       ELSE LET start == q + MaxOf(ks)
                nl == Find(s, <<"\n">>, start)
            IN [found |-> TRUE,
                group |-> SubSeq(s, start, IF nl = 0 THEN Len(s) ELSE nl - 1)]

\* re.search(label + r'\s*(.+?)(?:\n|$)', s): leftmost label that matches
SearchLine(s, label) ==
    LET ps == {p \in 1..Len(s) :
                  MatchAt(s, label, p) /\ LineGroup(s, p + Len(label)).found}
    IN IF ps = {} THEN NoMatch ELSE LineGroup(s, MinOf(ps) + Len(label))

\* the first index >= from where one of the terminators stands, 0 = none
FirstTerm(s, terms, from) ==
    LET c == {i \in from..Len(s) : \E t \in terms : MatchAt(s, t, i)}
    IN IF c = {} THEN 0 ELSE MinOf(c)

\* \s*(.+?)(?:t1|t2|t3) under re.DOTALL from index q on: the group has at
\* least one character and ends before the first terminator after it
TermGroup(s, q, terms) ==
    LET ks == {k \in 0..WsRun(s, q) :
                  q + k <= Len(s) /\ FirstTerm(s, terms, q + k + 1) # 0}
    IN IF ks = {} THEN NoMatch
       ELSE LET start == q + MaxOf(ks)
            IN [found |-> TRUE,
                group |-> SubSeq(s, start, FirstTerm(s, terms, start + 1) - 1)]

\* re.search(label + r'\s*(.+?)(?:t1|t2|t3)', s, re.DOTALL)
SearchTerm(s, label, terms) ==
    LET ps == {p \in 1..Len(s) :
                  MatchAt(s, label, p) /\ TermGroup(s, p + Len(label), terms).found}
    IN IF ps = {} THEN NoMatch ELSE TermGroup(s, MinOf(ps) + Len(label), terms)

\* \s*(.+?)$ under re.DOTALL from index q on
RestGroup(s, q) ==
    LET ks == {k \in 0..WsRun(s, q) : q + k <= Len(s)}
    IN IF ks = {} THEN NoMatch
       ELSE LET start == q + MaxOf(ks)
            IN [found |-> TRUE, group |-> SubSeq(s, start, DollarEnd(s, start))]

\* re.search(r'CONTENT:\s*(.+?)$', s, re.DOTALL)
SearchContentLabel(s) ==
    LET label == Chars("CONTENT:")
        ps == {p \in 1..Len(s) :
                  MatchAt(s, label, p) /\ RestGroup(s, p + Len(label)).found}
    IN IF ps = {} THEN NoMatch ELSE RestGroup(s, MinOf(ps) + Len(label))

\* \s*\n\n(.+?)$ under re.DOTALL from index q on: \s* leaves two newlines
SepGroup(s, q) ==
    LET ks == {k \in 0..WsRun(s, q) :
                  /\ q + k + 2 <= Len(s)
                  /\ s[q + k] = "\n"
                  /\ s[q + k + 1] = "\n"}
    IN IF ks = {} THEN NoMatch
       ELSE LET start == q + MaxOf(ks) + 2
            IN [found |-> TRUE, group |-> SubSeq(s, start, DollarEnd(s, start))]

\* re.search(r'---\s*\n\n(.+?)$', s, re.DOTALL)
SearchSeparator(s) ==
    LET sep == Chars("---")
        ps == {p \in 1..Len(s) : MatchAt(s, sep, p) /\ SepGroup(s, p + 3).found}
    IN IF ps = {} THEN NoMatch ELSE SepGroup(s, MinOf(ps) + 3)

\* str.upper() on one character
UpperChar(c) ==
    IF c \in Range(LowerAlpha)
    THEN UpperAlpha[CHOOSE i \in DOMAIN LowerAlpha : LowerAlpha[i] = c]
    ELSE c

IsLetter(c) == c \in Range(LowerAlpha) \cup Range(UpperAlpha)

\* str.title(): a letter after a letter in lower case, any other letter in
\* upper case
TitleCase(s) ==
    [i \in DOMAIN s |->
        IF i > 1 /\ IsLetter(s[i - 1]) THEN LowerChar(s[i]) ELSE UpperChar(s[i])]

\* lines 218-244: a field with a one-line value, either label form
ParsedLine(s, emph, plain) ==
    LET m1 == SearchLine(s, Chars(emph))
        m == IF m1.found THEN m1 ELSE SearchLine(s, Chars(plain))
    IN IF m.found THEN Strip(m.group) ELSE <<>>

\* lines 239-244: data['excerpt'] before the fallbacks
ParsedExcerpt(s) ==
    LET m1 == SearchTerm(s, Chars("**EXCERPT:**"),
                         {Chars("\n\n"), Chars("---"), Chars("**CONTENT")})
        m == IF m1.found THEN m1
             ELSE SearchTerm(s, Chars("EXCERPT:"),
                             {Chars("\n\n"), Chars("CONTENT:"), Chars("---")})
    IN IF m.found THEN Strip(m.group) ELSE <<>>

\* lines 246-265: data['content']
ParsedContent(s) ==
    LET excerpt == ParsedExcerpt(s)
        m1 == SearchContentLabel(s)
        m2 == IF m1.found THEN m1 ELSE SearchSeparator(s)
        m3 == IF ~m2.found /\ excerpt # <<>>
              THEN LET excerpt_end == Find(s, excerpt, 1) + Len(excerpt)
                       remaining == SubSeq(s, excerpt_end, Len(s))
                   IN SearchSeparator(remaining)
              ELSE m2
    IN IF m3.found THEN Strip(m3.group) ELSE <<>>

\* lines 270-276: the defaults of title, excerpt and meta_description
ParsedData(keyword, title, meta_description, meta_keywords, excerpt0, body) ==
    LET excerpt == IF excerpt0 = <<>> THEN Take(body, 200) \o Chars("...")
                   ELSE excerpt0
    IN [keyword |-> keyword,
        title |-> IF title = <<>>
                  THEN Chars("Everything You Need to Know About ") \o TitleCase(keyword)
                  ELSE title,
        content |-> body,
        meta_description |-> IF meta_description = <<>> THEN Take(excerpt, 160)
                             ELSE meta_description,
        meta_keywords |-> meta_keywords,
        excerpt |-> excerpt,
        word_count |-> WordCount(body)]

\* BlogGenerator._parse_blog_content(content, keyword)
_parse_blog_content(content, keyword) ==
    TheOne({TheOne({ParsedData(in[2], f[1], f[2], f[3], f[4], f[5]) :
                       f \in {<<ParsedLine(in[1], "**TITLE:**", "TITLE:"),
                                ParsedLine(in[1], "**META_DESCRIPTION:**",
                                           "META_DESCRIPTION:"),
                                ParsedLine(in[1], "**META_KEYWORDS:**", "META_KEYWORDS:"),
                                ParsedExcerpt(in[1]),
                                ParsedContent(in[1])>>}}) :
               in \in {<<content, keyword>>}})

----------------------------------------------------------------------------
(* Inputs of the model *)

T_ab == <<"a", " ", "b">>
T_a_b == <<"a", "-", "b">>
T_ab1 == <<"a", " ", "b", " ", "1">>
T_cd == <<"c", " ", "d">>
K_c == <<"c">>

\* "cryptocurrency for beginners"
K_crypto ==
    <<"c","r","y","p","t","o","c","u","r","r","e","n","c","y"," ","f","o",
      "r"," ","b","e","g","i","n","n","e","r","s">>

\* "The Beginner's Guide to Cryptocurrency"
T_guide ==
    <<"T","h","e"," ","B","e","g","i","n","n","e","r","'","s"," ","G","u",
      "i","d","e"," ","t","o"," ","C","r","y","p","t","o","c","u","r","r",
      "e","n","c","y">>

T_AB == <<"A", " ", "B">>
K_cx == <<"c", " ", "x">>

\* titles the text-generation service may return
GenTitles == {T_ab, T_ab1, T_cd}

\* titles a caller of save_blog_post may supply
SaveTitles == {T_ab, T_a_b, T_ab1, T_cd}

\* keywords the trend feed and the callers may supply
Keywords == {T_ab, K_c}

\* lines of custom_topics.txt; <<>> also stands for a missing file
CustomFiles == {<<>>, <<T_ab, K_c>>, <<K_c, K_c>>}

\* rows of affiliate_links: two active rows with different keywords, an
\* inactive row, and an active row whose URL holds the keyword of another
A_ab == [keyword |-> <<"a", "b">>, url |-> <<"u">>, active |-> TRUE]
A_c == [keyword |-> <<"c">>, url |-> <<"v">>, active |-> TRUE]
A_off == [keyword |-> <<"c">>, url |-> <<"w">>, active |-> FALSE]
A_abc == [keyword |-> <<"a", "b">>, url |-> <<"c", "/", "z">>, active |-> TRUE]

AffiliateRows == {A_ab, A_c, A_off, A_abc}

\* "Ab c ab", "abc", "c ab", "x" and the empty content
D_Ab_c_ab == <<"A", "b", " ", "c", " ", "a", "b">>
D_abc == <<"a", "b", "c">>
D_c_ab == <<"c", " ", "a", "b">>
D_x == <<"x">>

Contents == {D_Ab_c_ab, D_abc, D_c_ab, D_x, <<>>}

\* the body the text-generation service returns with a title
GeneratedContent(title) ==
    IF title = T_ab THEN D_Ab_c_ab
    ELSE IF title = T_cd THEN D_c_ab
    ELSE D_x

NoData == <<"None">>

\* entries of the trend feed: keyword and popularity score
TopicData == {[keyword |-> T_ab, trend_score |-> 2], [keyword |-> K_c, trend_score |-> 1]}

SeqsUpTo(S, n) == UNION {[1..k -> S] : k \in 0..n}

Terminal == {"completed", "skipped"}
Active == {"pending", "in_progress"}

\* custom_topics.txt was not read in this run
NotRead == [read |-> FALSE, lines |-> <<>>]

\* no direct call was made yet
NoCall == [op |-> "none"]

NoSave == [called |-> FALSE, title |-> <<>>, existing |-> FALSE,
           commit |-> "none", value |-> 0]

\* the locals of an invocation of the run that has not started
NoRun == [pc |-> "idle", count |-> 0, trending |-> <<>>, idx |-> 0,
          session_new |-> <<>>, attempts |-> 0, max_attempts |-> 0,
          generated_posts |-> <<>>, topic |-> 0, blog_data |-> NoData,
          save_ret |-> NoSave, selected |-> <<>>, raised |-> FALSE,
          picked |-> {}, run_base |-> 0, custom_topics |-> NotRead,
          blog_content |-> <<>>]

----------------------------------------------------------------------------
(* Duplicate filter *)

\* variant: similarity > threshold instead of >=
is_similar_to_existing_Strict(title, ps) ==
    \E i \in DOMAIN ps :
        LET a == Lower(title)
            b == Lower(ps[i].title)
        IN 200 * Matches(a, b) > 75 * (Len(a) + Len(b))

\* BlogGenerator.is_similar_to_existing(title, threshold=0.75): is_similar
is_similar_to_existing(title, ps) ==
    \E i \in DOMAIN ps : RatioAtLeast(Lower(title), Lower(ps[i].title), 75)

\* variant: overlap measured against the words of the title
WordOverlapAtLeast60_OfTitle(topic_lower, title_lower) ==
    LET topic_words == Words(topic_lower)
        title_words == Words(title_lower)
    IN IF topic_words # {} /\ title_words # {}
       THEN 10 * Cardinality(topic_words \cap title_words) >= 6 * Cardinality(title_words)
       ELSE FALSE

\* word_overlap >= 0.6 of is_topic_covered
WordOverlapAtLeast60(topic_lower, title_lower) ==
    LET topic_words == Words(topic_lower)
        title_words == Words(title_lower)
    IN IF topic_words # {} /\ title_words # {}
       THEN 10 * Cardinality(topic_words \cap title_words) >= 6 * Cardinality(topic_words)
       ELSE FALSE

\* variant: the coverage check compares characters only
is_topic_covered_RatioOnly(keyword, ps) ==
    \E i \in DOMAIN ps : RatioAtLeast(Lower(keyword), Lower(ps[i].title), 70)

\* BlogGenerator.is_topic_covered(topic, threshold=0.70): is_covered
is_topic_covered(keyword, ps) ==
    \E i \in DOMAIN ps :
        \/ RatioAtLeast(Lower(keyword), Lower(ps[i].title), 70)
        \/ WordOverlapAtLeast60(Lower(keyword), Lower(ps[i].title))

\* variant: the titles are compared as written
SimilarPosts_CaseSensitive(title, ps) ==
    {i \in DOMAIN ps : RatioAtLeast(title, ps[i].title, 75)}

\* is_similar_to_existing: the rows for which similarity >= threshold
SimilarPosts(title, ps) ==
    {i \in DOMAIN ps : RatioAtLeast(Lower(title), Lower(ps[i].title), 75)}

\* is_similar_to_existing: the tuples it can return; BlogPost.query.all() has
\* no order_by, so any matching row may come first. post 0 = None
is_similar_to_existing_ret(title, ps) ==
    IF SimilarPosts(title, ps) = {}
    THEN {[flag |-> FALSE, post |-> 0]}
    ELSE {[flag |-> TRUE, post |-> i] : i \in SimilarPosts(title, ps)}

\* is_topic_covered: the rows for which title_similarity >= threshold or
\* word_overlap >= 0.6
CoveringPosts(keyword, ps) ==
    {i \in DOMAIN ps :
        \/ RatioAtLeast(Lower(keyword), Lower(ps[i].title), 70)
        \/ WordOverlapAtLeast60(Lower(keyword), Lower(ps[i].title))}

\* is_topic_covered: the tuples it can return. post 0 = None
is_topic_covered_ret(keyword, ps) ==
    IF CoveringPosts(keyword, ps) = {}
    THEN {[flag |-> FALSE, post |-> 0]}
    ELSE {[flag |-> TRUE, post |-> i] : i \in CoveringPosts(keyword, ps)}

----------------------------------------------------------------------------
(* Persistence of an Article *)

\* variant: the slug column without its unique constraint
UniqueSlugOk_NoConstraint(ps, slug) == TRUE

\* models.py: slug = db.Column(..., unique=True): the commit is refused when
\* the slug is already stored
UniqueSlugOk(ps, slug) == \A i \in DOMAIN ps : ps[i].slug # slug

\* variant: published_at is stamped whatever the status
save_blog_post_AlwaysStamped(ps, title, content, topic_id, status, now, db_ok) ==
    LET slug0 == create_slug(title)
        existing == \E i \in DOMAIN ps : ps[i].slug = slug0
        slug == IF existing THEN slug0 \o <<"-">> \o IntToStr(now) ELSE slug0
        row == [title |-> title, slug |-> slug, content |-> content,
                topic_id |-> topic_id, status |-> status,
                published_at |-> now,
                view_count |-> 0]
        commit == IF ~db_ok THEN "error"
                  ELSE IF ~UniqueSlugOk(ps, slug) THEN "integrity"
                  ELSE "ok"
    IN [posts |-> IF commit = "ok" THEN Append(ps, row) ELSE ps,
        ret |-> [called |-> TRUE, title |-> title, existing |-> existing,
                 commit |-> commit,
                 value |-> IF commit = "ok" THEN Len(ps) + 1 ELSE 0]]

\* variant: the row added to the session stays when the commit fails
save_blog_post_NoRollback(ps, title, content, topic_id, status, now, db_ok) ==
    LET slug0 == create_slug(title)
        existing == \E i \in DOMAIN ps : ps[i].slug = slug0
        slug == IF existing THEN slug0 \o <<"-">> \o IntToStr(now) ELSE slug0
        row == [title |-> title, slug |-> slug, content |-> content,
                topic_id |-> topic_id, status |-> status,
                published_at |-> IF status = "published" THEN now ELSE 0,
                view_count |-> 0]
        commit == IF ~db_ok THEN "error"
                  ELSE IF ~UniqueSlugOk(ps, slug) THEN "integrity"
                  ELSE "ok"
    IN [posts |-> Append(ps, row),
        ret |-> [called |-> TRUE, title |-> title, existing |-> existing,
                 commit |-> commit,
                 value |-> IF commit = "ok" THEN Len(ps) + 1 ELSE 0]]

\* BlogGenerator.save_blog_post: db_ok = FALSE is a commit the database refuses
\* for a reason of its own
save_blog_post(ps, title, content, topic_id, status, now, db_ok) ==
    LET slug0 == create_slug(title)
        existing == \E i \in DOMAIN ps : ps[i].slug = slug0
        slug == IF existing THEN slug0 \o <<"-">> \o IntToStr(now) ELSE slug0
        row == [title |-> title, slug |-> slug, content |-> content,
                topic_id |-> topic_id, status |-> status,
                published_at |-> IF status = "published" THEN now ELSE 0,
                view_count |-> 0]
        commit == IF ~db_ok THEN "error"
                  ELSE IF ~UniqueSlugOk(ps, slug) THEN "integrity"
                  ELSE "ok"
    IN [posts |-> IF commit = "ok" THEN Append(ps, row) ELSE ps,
        ret |-> [called |-> TRUE, title |-> title, existing |-> existing,
                 commit |-> commit,
                 value |-> IF commit = "ok" THEN Len(ps) + 1 ELSE 0]]

----------------------------------------------------------------------------
(* Topic table *)

\* variant: the query does not see the rows added earlier in the batch
FirstByKeyword_NoFlush(committed, added, keyword) ==
    LET m == {i \in DOMAIN committed : committed[i].keyword = keyword}
    IN IF m = {} THEN {0} ELSE m

\* TrendingTopic.query.filter_by(keyword=...).first() inside the for loop:
\* the query autoflushes, so it sees the rows added earlier in the batch (ids
\* after those of the committed rows); no order_by, so any matching row may
\* be the first. 0 = None
FirstByKeyword(committed, added, keyword) ==
    LET rows == committed \o added
        m == {i \in DOMAIN rows : rows[i].keyword = keyword}
    IN IF m = {} THEN {0} ELSE m

\* variant: the topic is not marked in_progress
MarkInProgress_Skipped(ts, topic_id) == ts

\* run lines 68-70: topic.status = 'in_progress' and commit
MarkInProgress(ts, topic_id) == [ts EXCEPT ![topic_id].status = "in_progress"]

\* variant: the pending Topics are taken in the order of their ids
get_next_pending_topic_Oldest(ts) ==
    LET p == {i \in DOMAIN ts : ts[i].status = "pending"}
    IN IF p = {} THEN {0} ELSE {i \in p : \A j \in p : i <= j}

\* variant: any pending Topic, whatever its score
get_next_pending_topic_AnyPending(ts) ==
    LET p == {i \in DOMAIN ts : ts[i].status = "pending"}
    IN IF p = {} THEN {0} ELSE p

\* TrendsService.get_next_pending_topic: highest trend_score among pending,
\* ties in any order. 0 = None
get_next_pending_topic(ts) ==
    LET p == {i \in DOMAIN ts : ts[i].status = "pending"}
    IN IF p = {} THEN {0}
       ELSE {i \in p : \A j \in p : ts[j].trend_score <= ts[i].trend_score}

\* variant: a Topic that is already completed or skipped is left alone
mark_topic_processed_Guarded(ts, topic_id, status, now) ==
    IF topic_id \in DOMAIN ts /\ ts[topic_id].status \notin {"completed", "skipped"}
    THEN [ts EXCEPT ![topic_id].status = status, ![topic_id].processed_at = now]
    ELSE ts

\* TrendsService.mark_topic_processed
mark_topic_processed(ts, topic_id, status, now) ==
    IF topic_id \in DOMAIN ts
    THEN [ts EXCEPT ![topic_id].status = status, ![topic_id].processed_at = now]
    ELSE ts

----------------------------------------------------------------------------
(* Affiliate links *)

\* max_links=3, the default of inject_affiliate_links and the value its callers pass
DefaultMaxLinks == 3

\* run lines 92-95 and generate_single_blog lines 158-161: max_links=3
PipelineMaxLinks == 3

\* \w
IsWordChar(c) == c \in Range(LowerAlpha) \cup Range(UpperAlpha) \cup Range(DigitChar) \cup {"_"}

\* \b before index i of s (i = Len(s) + 1: at the end)
WordBoundary(s, i) ==
    (i > 1 /\ IsWordChar(s[i - 1])) # (i <= Len(s) /\ IsWordChar(s[i]))

\* \b keyword \b under re.IGNORECASE matches s at index i
KeywordAt(s, keyword, i) ==
    /\ i >= 1
    /\ i + Len(keyword) - 1 <= Len(s)
    /\ \A j \in 1..Len(keyword) : LowerChar(s[i + j - 1]) = LowerChar(keyword[j])
    /\ WordBoundary(s, i)
    /\ WordBoundary(s, i + Len(keyword))

\* matches[0].start() of pattern.finditer(modified_content), 0 = no match
KeywordMatch(s, keyword) ==
    LET m == {i \in 1..(Len(s) + 1) : KeywordAt(s, keyword, i)}
    IN IF m = {} THEN 0 ELSE MinOf(m)

\* lines 45-56: the match at index p becomes [keyword_text](url)
Linked(s, p, aff_link) ==
    LET n == Len(aff_link.keyword)
    IN SubSeq(s, 1, p - 1) \o <<"[">> \o SubSeq(s, p, p + n - 1) \o <<"]", "(">>
       \o aff_link.url \o <<")">> \o SubSeq(s, p + n, Len(s))

\* lines 35-59: the for loop from position k of affiliate_links on; injected
\* lists the replacements made: the row, the index of the match and the
\* content it was made in
RECURSIVE InjectLoop(_, _, _, _, _, _)
InjectLoop(links, order, k, modified_content, links_injected, max_links) ==
    IF k > Len(order) \/ links_injected >= max_links
    THEN [content |-> modified_content, injected |-> <<>>]
    ELSE LET aff_link == links[order[k]]
             p == KeywordMatch(modified_content, aff_link.keyword)
         IN IF p # 0
            THEN LET r == InjectLoop(links, order, k + 1,
                                     Linked(modified_content, p, aff_link),
                                     links_injected + 1, max_links)
                 IN [content |-> r.content,
                     injected |-> <<[link |-> order[k], at |-> p,
                                     before |-> modified_content]>> \o r.injected]
            ELSE InjectLoop(links, order, k + 1, modified_content, links_injected,
                            max_links)

\* AffiliateLink.query.filter_by(active=True).all(): the active rows; the
\* query has no order_by, so they come in any order
ActiveOrders(links) ==
    LET act == {i \in DOMAIN links : links[i].active}
    IN {o \in [1..Cardinality(act) -> act] :
           \A i, j \in DOMAIN o : i # j => o[i] # o[j]}

\* AffiliateService.inject_affiliate_links(content, max_links) when the query
\* returns the active rows in the given order
inject_affiliate_links(content, max_links, links, order) ==
    IF order = <<>>
    THEN [content |-> content, injected |-> <<>>]
    ELSE InjectLoop(links, order, 1, content, 0, max_links)

----------------------------------------------------------------------------
(* State machine *)

Init ==
    /\ topics = <<>>
    /\ posts = <<>>
    /\ clock = 1
    /\ pc = "idle"
    /\ count = 0
    /\ trending = <<>>
    /\ idx = 0
    /\ session_new = <<>>
    /\ attempts = 0
    /\ max_attempts = 0
    /\ generated_posts = <<>>
    /\ topic = 0
    /\ blog_data = NoData
    /\ save_ret = NoSave
    /\ selected = <<>>
    /\ raised = FALSE
    /\ picked = {}
    /\ run_base = 0
    /\ call = NoCall
    /\ custom_topics = NotRead
    /\ affiliate_links = <<>>
    /\ other = NoRun
    /\ blog_content = <<>>

\* variant: entries drawn with replacement
Samples_WithReplacement(file, k) ==
    {[i \in 1..k |-> file[f[i]]] : f \in [1..k -> DOMAIN file]}

\* random.sample(topics, k): k entries at distinct positions, in any order
Samples(file, k) ==
    {[i \in 1..k |-> file[f[i]]] :
        f \in {g \in [1..k -> DOMAIN file] : \A i, j \in 1..k : i # j => g[i] # g[j]}}

\* the time of datetime.utcnow() advances
Tick ==
    /\ clock < MaxClock
    /\ clock' = clock + 1
    /\ UNCHANGED <<blog_content, other, affiliate_links, call, custom_topics,
                   topics, posts, pc,
                   count, trending, idx, session_new, attempts,
                   max_attempts, generated_posts, topic, blog_data, save_ret,
                   selected, raised, picked, run_base>>

\* TrendsService.get_trending_topics(count): trending_df[0].head(count)
get_trending_topics(feed, n) == SubSeq(feed, 1, Min(n, Len(feed)))

\* run_daily_blog_generation(count), lines 29-43: the trend feed has entries
StartRun(c, feed) ==
    /\ pc = "idle"
    /\ feed # <<>>
    /\ Len(topics) + Len(get_trending_topics(feed, c * 3)) <= MaxTopics
    /\ Len(posts) + c <= MaxPosts
    /\ count' = c
    /\ trending' = get_trending_topics(feed, c * 3)
    /\ generated_posts' = <<>>
    /\ raised' = FALSE
    /\ picked' = {}
    /\ run_base' = Len(posts)
    /\ pc' = "saving"
    /\ idx' = 1
    /\ UNCHANGED <<blog_content, other, affiliate_links, call, custom_topics,
                   topics, posts, clock,
                   session_new, attempts, max_attempts,
                   topic, blog_data, save_ret, selected>>

\* run_daily_blog_generation(count), lines 29-40, the trend feed is empty:
\* _generate_from_custom_topics(count), lines 193-211
StartFallback(c, file) ==
    /\ pc = "idle"
    /\ Len(posts) + c <= MaxPosts
    /\ count' = c
    /\ generated_posts' = <<>>
    /\ raised' = FALSE
    /\ picked' = {}
    /\ run_base' = Len(posts)
    /\ IF file = <<>>
       THEN /\ pc' = "done"
            /\ selected' = <<>>
       ELSE /\ pc' = "fallback"
            /\ selected' \in Samples(file, Min(c, Len(file)))
    /\ custom_topics' = [read |-> TRUE, lines |-> file]
    /\ UNCHANGED <<blog_content, other, affiliate_links, call, topics, posts,
                   clock, trending, idx,
                   session_new, attempts,
                   max_attempts, topic, blog_data, save_ret>>

\* save_trending_topics, lines 83-102: one iteration of the for loop
SaveTopic ==
    /\ pc = "saving"
    /\ LET topic_data == trending[idx]
           rows == topics \o session_new
       IN \E existing \in FirstByKeyword(topics, session_new, topic_data.keyword) :
            IF existing # 0 /\ rows[existing].status \in {"pending", "in_progress"}
            THEN session_new' = session_new
            ELSE session_new' = Append(session_new,
                     [keyword |-> topic_data.keyword,
                      trend_score |-> topic_data.trend_score,
                      status |-> "pending", processed_at |-> 0])
    /\ IF idx < Len(trending)
       THEN /\ idx' = idx + 1
            /\ pc' = "saving"
       ELSE /\ idx' = 0
            /\ pc' = "commit_topics"
    /\ UNCHANGED <<blog_content, other, affiliate_links, call, custom_topics,
                   topics, posts, clock,
                   count, trending, attempts, max_attempts,
                   generated_posts, topic, blog_data, save_ret, selected, raised,
                   picked, run_base>>

\* save_trending_topics, lines 104-111, then run lines 46-47; trending_topics
\* is not read after line 47
CommitTopics(db_ok) ==
    /\ pc = "commit_topics"
    /\ topics' = IF db_ok THEN topics \o session_new ELSE topics
    /\ session_new' = <<>>
    /\ attempts' = 0
    /\ max_attempts' = Len(trending)
    /\ trending' = <<>>
    /\ pc' = "loop"
    /\ UNCHANGED <<blog_content, other, affiliate_links, call, custom_topics,
                   posts, clock, count,
                   idx, generated_posts, topic,
                   blog_data, save_ret, selected, raised, picked, run_base>>

\* variant: attempts compared with <=
LoopCond_OffByOne(n_posts, cnt, att, max_att) == n_posts < cnt /\ att <= max_att

\* run line 49: the while condition
LoopCond(n_posts, cnt, att, max_att) == n_posts < cnt /\ att < max_att

\* run lines 49-57: loop head and get_next_pending_topic
NextTopic ==
    /\ pc = "loop"
    /\ IF LoopCond(Len(generated_posts), count, attempts, max_attempts)
       THEN /\ attempts' = attempts + 1
            /\ \E t \in get_next_pending_topic(topics) :
                 /\ topic' = t
                 /\ IF t = 0
                    THEN /\ pc' = "done"
                         /\ picked' = picked
                    ELSE /\ pc' = "check_covered"
                         /\ picked' = picked \cup {t}
       ELSE /\ pc' = "done"
            /\ UNCHANGED <<attempts, topic, picked>>
    /\ UNCHANGED <<blog_content, other, affiliate_links, call, custom_topics,
                   topics, posts, clock,
                   count, trending, idx, session_new,
                   max_attempts, generated_posts, blog_data, save_ret, selected,
                   raised, run_base>>

\* run lines 61-70: coverage check, then skipped or in_progress; the check
\* reads the blog_posts table and may raise, which ends the run at line 115
CheckCovered(raises) ==
    /\ pc = "check_covered"
    /\ IF raises
       THEN /\ raised' = TRUE
            /\ pc' = "done"
            /\ UNCHANGED <<topics, topic>>
       ELSE /\ raised' = raised
            /\ IF is_topic_covered(topics[topic].keyword, posts)
               THEN /\ topics' = mark_topic_processed(topics, topic, "skipped", clock)
                    /\ pc' = "loop"
                    /\ topic' = 0
               ELSE /\ topics' = MarkInProgress(topics, topic)
                    /\ pc' = "generate"
                    /\ topic' = topic
    /\ UNCHANGED <<blog_content, other, affiliate_links, call, custom_topics,
                   posts, clock, count,
                   trending, idx, session_new, attempts,
                   max_attempts, generated_posts, blog_data, save_ret,
                   selected, picked, run_base>>

\* run lines 72-82: generate_blog_post returns None on any error of its own
GenerateFails ==
    /\ pc = "generate"
    /\ blog_data' = NoData
    /\ blog_content' = <<>>
    /\ topics' = mark_topic_processed(topics, topic, "skipped", clock)
    /\ topic' = 0
    /\ pc' = "loop"
    /\ UNCHANGED <<other, affiliate_links, call, custom_topics, posts, clock,
                   count,
                   trending, idx, session_new, attempts,
                   max_attempts, generated_posts, save_ret, selected,
                   raised, picked, run_base>>

\* run lines 72-79: generate_blog_post returns a draft
Generate(title) ==
    /\ pc = "generate"
    /\ blog_data' = title
    /\ blog_content' = GeneratedContent(title)
    /\ pc' = "check_similar"
    /\ UNCHANGED <<other, affiliate_links, call, custom_topics, topics, posts,
                   clock,
                   count, trending, idx, session_new,
                   attempts, max_attempts, generated_posts, topic, save_ret,
                   selected, raised, picked, run_base>>

\* run lines 84-89: title check; it reads the blog_posts table and may raise
CheckSimilar(raises) ==
    /\ pc = "check_similar"
    /\ IF raises
       THEN /\ raised' = TRUE
            /\ pc' = "done"
            /\ UNCHANGED <<topics, topic, blog_data, blog_content>>
       ELSE /\ raised' = raised
            /\ IF is_similar_to_existing(blog_data, posts)
               THEN /\ topics' = mark_topic_processed(topics, topic, "skipped", clock)
                    /\ pc' = "loop"
                    /\ topic' = 0
                    /\ blog_data' = NoData
                    /\ blog_content' = <<>>
               ELSE /\ pc' = "inject"
                    /\ UNCHANGED <<topics, topic, blog_data, blog_content>>
    /\ UNCHANGED <<other, affiliate_links, call, custom_topics, posts, clock,
                   count,
                   trending, idx, session_new, attempts,
                   max_attempts, generated_posts, save_ret, selected, picked,
                   run_base>>

\* run lines 91-95: inject_affiliate_links reads the affiliate_links table and
\* may raise
Inject(raises) ==
    /\ pc = "inject"
    /\ IF raises
       THEN /\ raised' = TRUE
            /\ pc' = "done"
            /\ blog_content' = blog_content
       ELSE /\ raised' = raised
            /\ pc' = "save"
            /\ \E order \in ActiveOrders(affiliate_links) :
                  blog_content' = inject_affiliate_links(
                                      blog_content, PipelineMaxLinks,
                                      affiliate_links, order).content
    /\ UNCHANGED <<other, affiliate_links, call, custom_topics, topics, posts,
                   clock,
                   count, trending, idx, session_new,
                   attempts, max_attempts, generated_posts, topic, blog_data,
                   save_ret, selected, picked, run_base>>

\* run lines 97-102: save_blog_post(blog_data, topic.id, 'published')
SaveStep(db_ok) ==
    /\ pc = "save"
    /\ LET r == save_blog_post(posts, blog_data, blog_content, topic, "published",
                              clock, db_ok)
       IN /\ posts' = r.posts
          /\ save_ret' = r.ret
    /\ pc' = "after_save"
    /\ UNCHANGED <<blog_content, other, affiliate_links, call, custom_topics,
                   topics, clock, count,
                   trending, idx, session_new, attempts,
                   max_attempts, generated_posts, topic, blog_data, selected,
                   raised, picked, run_base>>

\* run lines 104-110; topic, blog_data and blog_post are not read again
AfterSave ==
    /\ pc = "after_save"
    /\ IF save_ret.value # 0
       THEN /\ generated_posts' = Append(generated_posts, save_ret.value)
            /\ topics' = mark_topic_processed(topics, topic, "completed", clock)
       ELSE /\ generated_posts' = generated_posts
            /\ topics' = mark_topic_processed(topics, topic, "skipped", clock)
    /\ pc' = "loop"
    /\ topic' = 0
    /\ blog_data' = NoData
    /\ blog_content' = <<>>
    /\ save_ret' = NoSave
    /\ UNCHANGED <<other, affiliate_links, call, custom_topics, posts, clock,
                   count,
                   trending, idx, session_new, attempts,
                   max_attempts, selected, raised, picked, run_base>>

\* variant: skip_duplicate_check also skips the title check
SingleBlogOutcomes_SkipAll(keyword, skip, ps, links, sr, now) ==
    LET none == [posts |-> ps, save_ret |-> sr, value |-> 0, raised |-> FALSE]
    IN IF ~skip /\ is_topic_covered(keyword, ps)
       THEN {none}
       ELSE {none} \cup
            UNION {IF ~skip /\ is_similar_to_existing(title, ps)
                   THEN {none}
                   ELSE {LET injected == inject_affiliate_links(
                                             GeneratedContent(title),
                                             PipelineMaxLinks, links, order)
                             r == save_blog_post(ps, title, injected.content, 0,
                                                 "published", now, db_ok)
                         IN [posts |-> r.posts, save_ret |-> r.ret,
                             value |-> r.ret.value, raised |-> FALSE] :
                            db_ok \in BOOLEAN, order \in ActiveOrders(links)} :
                   title \in GenTitles}

\* generate_single_blog(keyword, skip_duplicate_check): the possible results,
\* as the table after the call, the record of its save_blog_post call, the
\* returned row id (0 = None) and whether an exception leaves the call.
\* Generation may fail and every collaborator may raise inside the try of
\* lines 130-178; both return None without a write
SingleBlogOutcomes(keyword, skip, ps, links, sr, now) ==
    LET none == [posts |-> ps, save_ret |-> sr, value |-> 0, raised |-> FALSE]
    IN IF ~skip /\ is_topic_covered(keyword, ps)
       THEN {none}
       ELSE {none} \cup
            UNION {IF is_similar_to_existing(title, ps)
                   THEN {none}
                   ELSE {LET injected == inject_affiliate_links(
                                             GeneratedContent(title),
                                             PipelineMaxLinks, links, order)
                             r == save_blog_post(ps, title, injected.content, 0,
                                                 "published", now, db_ok)
                         IN [posts |-> r.posts, save_ret |-> r.ret,
                             value |-> r.ret.value, raised |-> FALSE] :
                            db_ok \in BOOLEAN, order \in ActiveOrders(links)} :
                   title \in GenTitles}

\* _generate_from_custom_topics, lines 214-224: one iteration of the for loop,
\* or its end
FallbackStep ==
    /\ pc = "fallback"
    /\ IF selected = <<>>
       THEN /\ pc' = "done"
            /\ UNCHANGED <<posts, generated_posts, selected>>
       ELSE \E o \in SingleBlogOutcomes(Head(selected), FALSE, posts,
                                         affiliate_links, NoSave, clock) :
              /\ posts' = o.posts
              /\ generated_posts' = IF o.value # 0
                                    THEN Append(generated_posts, o.value)
                                    ELSE generated_posts
              /\ selected' = Tail(selected)
              /\ pc' = "fallback"
    /\ UNCHANGED <<blog_content, other, affiliate_links, call, custom_topics,
                   topics, clock, count,
                   trending, idx, session_new, attempts,
                   max_attempts, topic, blog_data, save_ret, raised, picked,
                   run_base>>

\* the run has returned generated_posts (lines 113, 117 and 40); the caller
\* goes on
Return ==
    /\ pc = "done"
    /\ pc' = "idle"
    /\ count' = 0
    /\ attempts' = 0
    /\ max_attempts' = 0
    /\ generated_posts' = <<>>
    /\ topic' = 0
    /\ blog_data' = NoData
    /\ blog_content' = <<>>
    /\ raised' = FALSE
    /\ picked' = {}
    /\ run_base' = 0
    /\ custom_topics' = NotRead
    /\ UNCHANGED <<other, affiliate_links, call, topics, posts, clock,
                   trending, idx,
                   session_new, save_ret,
                   selected>>

\* a caller invokes generate_single_blog (API, command-line scripts)
GenerateSingleBlog(keyword, skip) ==
    /\ pc = "idle"
    /\ Len(posts) < MaxSaved
    /\ \E o \in SingleBlogOutcomes(keyword, skip, posts, affiliate_links,
                                    NoSave, clock) :
         /\ posts' = o.posts
         /\ save_ret' = o.save_ret
         /\ call' = [op |-> "generate_single_blog", keyword |-> keyword,
                     skip_duplicate_check |-> skip, before |-> posts,
                     topics_before |-> topics, value |-> o.value,
                     raised |-> o.raised]
    /\ UNCHANGED <<blog_content, other, affiliate_links, custom_topics,
                   topics, clock, pc,
                   count, trending, idx, session_new, attempts,
                   max_attempts, generated_posts, topic, blog_data, selected,
                   raised, picked, run_base>>

\* a caller invokes save_blog_post(blog_data, topic_id=None, status)
SaveBlogPostCall(title, status, db_ok) ==
    /\ pc = "idle"
    /\ Len(posts) < MaxSaved
    /\ LET r == save_blog_post(posts, title, GeneratedContent(title), 0, status,
                              clock, db_ok)
       IN /\ posts' = r.posts
          /\ save_ret' = r.ret
    /\ UNCHANGED <<blog_content, other, affiliate_links, call, custom_topics,
                   topics, clock, pc,
                   count, trending, idx, session_new, attempts,
                   max_attempts, generated_posts, topic, blog_data, selected,
                   raised, picked, run_base>>

\* the steps of a run that has started
RunStep ==
    \/ SaveTopic
    \/ \E db_ok \in BOOLEAN : CommitTopics(db_ok)
    \/ NextTopic
    \/ \E raises \in BOOLEAN : CheckCovered(raises)
    \/ GenerateFails
    \/ \E title \in GenTitles : Generate(title)
    \/ \E raises \in BOOLEAN : CheckSimilar(raises)
    \/ \E raises \in BOOLEAN : Inject(raises)
    \/ \E db_ok \in BOOLEAN : SaveStep(db_ok)
    \/ AfterSave
    \/ FallbackStep
    \/ Return

\* the daily run, one at a time; no step of a run reads the clock except to
\* stamp a row, so the runs are explored within one second
Next ==
    \/ \E c \in 1..MaxCount, feed \in SeqsUpTo(TopicData, MaxBatch) : StartRun(c, feed)
    \/ \E c \in 1..MaxCount, file \in CustomFiles : StartFallback(c, file)
    \/ RunStep

Spec == Init /\ [][Next]_vars

\* callers of save_blog_post, one call at a time, while time passes
NextSave ==
    \/ Tick
    \/ \E title \in SaveTitles, status \in {"draft", "published"}, db_ok \in BOOLEAN :
         SaveBlogPostCall(title, status, db_ok)

SpecSave == Init /\ [][NextSave]_vars

\* callers of generate_single_blog, one call at a time, while time passes
NextSingle ==
    \/ Tick
    \/ \E keyword \in Keywords, skip \in BOOLEAN : GenerateSingleBlog(keyword, skip)

\* generate_single_blog is called with or without a Topic row for the keyword
InitSingle ==
    /\ topics \in {<<>>,
                    <<[keyword |-> T_ab, trend_score |-> 2, status |-> "pending",
                       processed_at |-> 0]>>}
    /\ posts = <<>>
    /\ clock = 1
    /\ pc = "idle"
    /\ count = 0
    /\ trending = <<>>
    /\ idx = 0
    /\ session_new = <<>>
    /\ attempts = 0
    /\ max_attempts = 0
    /\ generated_posts = <<>>
    /\ topic = 0
    /\ blog_data = NoData
    /\ save_ret = NoSave
    /\ selected = <<>>
    /\ raised = FALSE
    /\ picked = {}
    /\ run_base = 0
    /\ call = NoCall
    /\ custom_topics = NotRead
    /\ affiliate_links = <<>>
    /\ other = NoRun
    /\ blog_content = <<>>

SpecSingle == InitSingle /\ [][NextSingle]_vars

----------------------------------------------------------------------------
(* Direct calls of mark_topic_processed *)

\* rows of trending_topics as the pipeline leaves them: processed_at is set
\* exactly on the rows that were marked
MarkRows ==
    {[keyword |-> K_c, trend_score |-> 1, status |-> st,
      processed_at |-> IF st \in Terminal THEN 1 ELSE 0] :
        st \in {"pending", "in_progress", "completed", "skipped"}}

\* any trending_topics table of up to MaxMarkRows rows, no run in progress
InitMark ==
    /\ topics \in SeqsUpTo(MarkRows, MaxMarkRows)
    /\ posts = <<>>
    /\ clock = 1
    /\ pc = "idle"
    /\ count = 0
    /\ trending = <<>>
    /\ idx = 0
    /\ session_new = <<>>
    /\ attempts = 0
    /\ max_attempts = 0
    /\ generated_posts = <<>>
    /\ topic = 0
    /\ blog_data = NoData
    /\ save_ret = NoSave
    /\ selected = <<>>
    /\ raised = FALSE
    /\ picked = {}
    /\ run_base = 0
    /\ call = NoCall
    /\ custom_topics = NotRead
    /\ affiliate_links = <<>>
    /\ other = NoRun
    /\ blog_content = <<>>

\* a caller invokes mark_topic_processed(topic_id, status); topic_id may be
\* the id of no row
MarkTopicCall(topic_id, status) ==
    /\ pc = "idle"
    /\ topics' = mark_topic_processed(topics, topic_id, status, clock)
    /\ call' = [op |-> "mark_topic_processed", topic_id |-> topic_id,
                status |-> status, now |-> clock,
                was |-> IF topic_id \in DOMAIN topics
                        THEN topics[topic_id].status ELSE "none"]
    /\ UNCHANGED <<blog_content, other, affiliate_links, custom_topics, posts,
                   clock, pc, count,
                   trending, idx, session_new, attempts,
                   max_attempts, generated_posts, topic, blog_data, save_ret,
                   selected, raised, picked, run_base>>

\* callers of mark_topic_processed, one call at a time, while time passes
NextMark ==
    \/ Tick
    \/ \E topic_id \in 0..(MaxMarkRows + 1), status \in Terminal :
         MarkTopicCall(topic_id, status)

SpecMark == InitMark /\ [][NextMark]_vars

----------------------------------------------------------------------------
(* A run that stops part-way *)

\* the process stops during a run: what was committed stays, the session and
\* the locals of the run are lost
Crash ==
    /\ pc \notin {"idle", "done"}
    /\ pc' = "idle"
    /\ count' = 0
    /\ trending' = <<>>
    /\ idx' = 0
    /\ session_new' = <<>>
    /\ attempts' = 0
    /\ max_attempts' = 0
    /\ generated_posts' = <<>>
    /\ topic' = 0
    /\ blog_data' = NoData
    /\ blog_content' = <<>>
    /\ save_ret' = NoSave
    /\ selected' = <<>>
    /\ raised' = FALSE
    /\ picked' = {}
    /\ run_base' = 0
    /\ custom_topics' = NotRead
    /\ UNCHANGED <<other, affiliate_links, call, topics, posts, clock>>

\* daily runs, any of which may stop part-way
NextCrash ==
    \/ Next
    \/ Crash

SpecCrash == Init /\ [][NextCrash]_vars

----------------------------------------------------------------------------
(* Direct calls of the duplicate filter *)

\* titles of the stored Articles
CheckTitles == {T_ab, T_AB, T_cd, T_guide}

\* keywords a caller of is_topic_covered may supply
CheckKeywords == {K_c, K_cx, T_ab, K_crypto, <<>>}

\* titles a caller of is_similar_to_existing may supply
CheckCandidates == {T_ab, T_AB, T_ab1, T_a_b, T_cd}

\* the blog_posts table after saving the titles in turn, one per second
RECURSIVE TableOf(_)
TableOf(titles) ==
    IF titles = <<>> THEN <<>>
    ELSE LET n == Len(titles)
         IN save_blog_post(TableOf(SubSeq(titles, 1, n - 1)), titles[n],
                           GeneratedContent(titles[n]), 0,
                           "published", n, TRUE).posts

\* any blog_posts table made of up to MaxStored saves, no run in progress
InitCheck ==
    /\ posts \in {TableOf(titles) : titles \in SeqsUpTo(CheckTitles, MaxStored)}
    /\ topics = <<>>
    /\ clock = 1
    /\ pc = "idle"
    /\ count = 0
    /\ trending = <<>>
    /\ idx = 0
    /\ session_new = <<>>
    /\ attempts = 0
    /\ max_attempts = 0
    /\ generated_posts = <<>>
    /\ topic = 0
    /\ blog_data = NoData
    /\ save_ret = NoSave
    /\ selected = <<>>
    /\ raised = FALSE
    /\ picked = {}
    /\ run_base = 0
    /\ call = NoCall
    /\ custom_topics = NotRead
    /\ affiliate_links = <<>>
    /\ other = NoRun
    /\ blog_content = <<>>

\* a caller invokes is_topic_covered(keyword)
IsTopicCoveredCall(keyword) ==
    /\ pc = "idle"
    /\ \E r \in is_topic_covered_ret(keyword, posts) :
         call' = [op |-> "is_topic_covered", arg |-> keyword,
                  flag |-> r.flag, post |-> r.post]
    /\ UNCHANGED <<blog_content, other, affiliate_links, custom_topics,
                   topics, posts, clock, pc,
                   count, trending, idx,
                   session_new, attempts, max_attempts, generated_posts, topic,
                   blog_data, save_ret, selected, raised, picked, run_base>>

\* a caller invokes is_similar_to_existing(title)
IsSimilarCall(title) ==
    /\ pc = "idle"
    /\ \E r \in is_similar_to_existing_ret(title, posts) :
         call' = [op |-> "is_similar_to_existing", arg |-> title,
                  flag |-> r.flag, post |-> r.post]
    /\ UNCHANGED <<blog_content, other, affiliate_links, custom_topics,
                   topics, posts, clock, pc,
                   count, trending, idx,
                   session_new, attempts, max_attempts, generated_posts, topic,
                   blog_data, save_ret, selected, raised, picked, run_base>>

\* callers of the duplicate filter, one call at a time
NextCheck ==
    \/ \E keyword \in CheckKeywords : IsTopicCoveredCall(keyword)
    \/ \E title \in CheckCandidates : IsSimilarCall(title)

SpecCheck == InitCheck /\ [][NextCheck]_vars

----------------------------------------------------------------------------
(* Direct calls of _parse_blog_content *)

V_Foo == <<"F", "o", "o">>
V_Foo_sp == <<"F", "o", "o", " ">>
V_Con == <<"O", "n", " ", "C", "O", "N", "T", "E", "N", "T", ":", " ", "x">>
V_Bar == <<"B", "a", "r">>
V_ab == <<"a", ",", "b">>
V_Baz == <<"B", "a", "z">>
V_Bz == <<"B", "-", "-", "-", "z">>
B_hello == <<"H", "e", "l", "l", "o", " ", "w", "o", "r", "l", "d", ".">>
B_para == <<"x", "\n", "\n", "y", " ", "x", "\n">>
B_z == <<" ", "z", " ">>

\* values the response may give after the TITLE and EXCERPT labels
TitleValues == {V_Foo, V_Foo_sp, V_Con}
ExcerptValues == {V_Baz, V_Bz}

\* bodies the response may hold
Bodies == {B_hello, B_para, B_z}

\* shapes of a response: the five labels plain, the five labels emphasized, or
\* four emphasized labels and a plain CONTENT label; the body after a CONTENT
\* label, after a --- separator, directly after the excerpt, or missing
Responses ==
    {r \in [labels : {"plain", "emph", "mixed"},
            title : TitleValues,
            excerpt : ExcerptValues,
            tail : {"label", "separator", "bare", "none"},
            body : Bodies \cup {<<>>}] :
        r.tail = "none" <=> r.body = <<>>}

Label(emph, plain, form) == IF form = "plain" THEN Chars(plain) ELSE Chars(emph)

\* the text of the response
Render(r) ==
    Label("**TITLE:**", "TITLE:", r.labels) \o <<" ">> \o r.title \o Chars("\n\n")
    \o Label("**META_DESCRIPTION:**", "META_DESCRIPTION:", r.labels)
    \o <<" ">> \o V_Bar \o Chars("\n\n")
    \o Label("**META_KEYWORDS:**", "META_KEYWORDS:", r.labels)
    \o <<" ">> \o V_ab \o Chars("\n\n")
    \o Label("**EXCERPT:**", "EXCERPT:", r.labels) \o <<" ">> \o r.excerpt
    \o Chars("\n\n")
    \o (CASE r.tail = "label" ->
               (IF r.labels = "emph" THEN Chars("**CONTENT:**") ELSE Chars("CONTENT:"))
               \o <<"\n">> \o r.body
          [] r.tail = "separator" -> Chars("---") \o Chars("\n\n") \o r.body
          [] r.tail = "bare" -> r.body
          [] r.tail = "none" -> <<>>)

\* generate_blog_post: the text-generation service has answered the prompt for
\* a keyword and the response has not been parsed yet
InitParse ==
    /\ call \in {[op |-> "response", parts |-> r, keyword |-> keyword] :
                    r \in Responses, keyword \in Keywords}
    /\ topics = <<>>
    /\ posts = <<>>
    /\ clock = 1
    /\ pc = "idle"
    /\ count = 0
    /\ trending = <<>>
    /\ idx = 0
    /\ session_new = <<>>
    /\ attempts = 0
    /\ max_attempts = 0
    /\ generated_posts = <<>>
    /\ topic = 0
    /\ blog_data = NoData
    /\ save_ret = NoSave
    /\ selected = <<>>
    /\ raised = FALSE
    /\ picked = {}
    /\ run_base = 0
    /\ custom_topics = NotRead
    /\ affiliate_links = <<>>
    /\ other = NoRun
    /\ blog_content = <<>>

\* generate_blog_post line 118: the response is parsed
ParseCall ==
    /\ call.op = "response"
    /\ \E content \in {Render(call.parts)} :
           call' = [op |-> "_parse_blog_content", parts |-> call.parts,
                    content |-> content,
                    data |-> _parse_blog_content(content, call.keyword)]
    /\ UNCHANGED <<blog_content, other, affiliate_links, custom_topics,
                   topics, posts, clock, pc,
                   count, trending, idx,
                   session_new, attempts, max_attempts, generated_posts, topic,
                   blog_data, save_ret, selected, raised, picked, run_base>>

NextParse == ParseCall

SpecParse == InitParse /\ [][NextParse]_vars

----------------------------------------------------------------------------
(* Direct calls of create_slug *)

\* "3 Things Nobody Tells You About AI!"
T_things ==
    <<"3", " ", "T", "h", "i", "n", "g", "s", " ", "N", "o", "b", "o", "d", "y", " ", "T", "e", "l", "l", "s", " ", "Y", "o", "u", " ", "A", "b", "o", "u", "t", " ", "A", "I", "!">>

\* "3-things-nobody-tells-you-about-ai"
S_things ==
    <<"3", "-", "t", "h", "i", "n", "g", "s", "-", "n", "o", "b", "o", "d", "y", "-", "t", "e", "l", "l", "s", "-", "y", "o", "u", "-", "a", "b", "o", "u", "t", "-", "a", "i">>

\* characters of a title: a capital, a small letter, a digit, the separators,
\* a hyphen and a punctuation mark
TitleChars == {"A", "b", "3", " ", "_", "-", "!"}

\* two words with a run of separators between them
T_gap == <<"A", " ", "\t", " ", "b">>

SlugTitles == SeqsUpTo(TitleChars, MaxTitleLen) \cup {T_things, T_gap}

IdleState ==
    /\ topics = <<>>
    /\ posts = <<>>
    /\ clock = 1
    /\ pc = "idle"
    /\ count = 0
    /\ trending = <<>>
    /\ idx = 0
    /\ session_new = <<>>
    /\ attempts = 0
    /\ max_attempts = 0
    /\ generated_posts = <<>>
    /\ topic = 0
    /\ blog_data = NoData
    /\ save_ret = NoSave
    /\ selected = <<>>
    /\ raised = FALSE
    /\ picked = {}
    /\ run_base = 0
    /\ custom_topics = NotRead
    /\ affiliate_links = <<>>
    /\ other = NoRun
    /\ blog_content = <<>>

\* save_blog_post line 301: a draft with its title is about to be saved
InitSlug ==
    /\ call \in {[op |-> "title", title |-> title] : title \in SlugTitles}
    /\ IdleState

\* save_blog_post line 301: slug = self.create_slug(blog_data['title'])
CreateSlugCall ==
    /\ call.op = "title"
    /\ call' = [op |-> "create_slug", title |-> call.title,
                slug |-> create_slug(call.title)]
    /\ UNCHANGED <<blog_content, other, affiliate_links, custom_topics,
                   topics, posts, clock, pc,
                   count, trending, idx,
                   session_new, attempts, max_attempts, generated_posts, topic,
                   blog_data, save_ret, selected, raised, picked, run_base>>

NextSlug == CreateSlugCall

SpecSlug == InitSlug /\ [][NextSlug]_vars

----------------------------------------------------------------------------
(* Direct calls of inject_affiliate_links *)

MaxLinksValues == {0, 1, DefaultMaxLinks}

\* a draft is about to get its links: automation_service.py lines 92-95
InitInject ==
    /\ call \in {[op |-> "draft", content |-> content, max_links |-> max_links] :
                    content \in Contents, max_links \in MaxLinksValues}
    /\ topics = <<>>
    /\ posts = <<>>
    /\ clock = 1
    /\ pc = "idle"
    /\ count = 0
    /\ trending = <<>>
    /\ idx = 0
    /\ session_new = <<>>
    /\ attempts = 0
    /\ max_attempts = 0
    /\ generated_posts = <<>>
    /\ topic = 0
    /\ blog_data = NoData
    /\ save_ret = NoSave
    /\ selected = <<>>
    /\ raised = FALSE
    /\ picked = {}
    /\ run_base = 0
    /\ custom_topics = NotRead
    /\ affiliate_links \in SeqsUpTo(AffiliateRows, MaxLinkRows)
    /\ other = NoRun
    /\ blog_content = <<>>

\* inject_affiliate_links(content, max_links) is called
InjectCall(order) ==
    /\ call.op = "draft"
    /\ \E r \in {inject_affiliate_links(call.content, call.max_links,
                                         affiliate_links, order)} :
           call' = [op |-> "inject_affiliate_links", content |-> call.content,
                    max_links |-> call.max_links, order |-> order,
                    injected |-> r.injected, result |-> r.content]
    /\ UNCHANGED <<blog_content, other, affiliate_links, custom_topics,
                   topics, posts, clock, pc,
                   count, trending, idx, session_new, attempts, max_attempts,
                   generated_posts, topic, blog_data, save_ret, selected,
                   raised, picked, run_base>>

NextInject == \E order \in ActiveOrders(affiliate_links) : InjectCall(order)

SpecInject == InitInject /\ [][NextInject]_vars

----------------------------------------------------------------------------
(* Detail view of an Article *)

MaxViewRows == 2
MaxViews == 2

\* the blog_posts table after saving (title, status) pairs in turn, one per
\* second
RECURSIVE SavedTable(_)
SavedTable(saves) ==
    IF saves = <<>> THEN <<>>
    ELSE LET n == Len(saves)
         IN save_blog_post(SavedTable(SubSeq(saves, 1, n - 1)), saves[n].title,
                           GeneratedContent(saves[n].title),
                           0, saves[n].status, n, TRUE).posts

\* the slugs a reader asks for: two that may be stored, one that never is
ViewSlugs == {create_slug(T_ab), create_slug(T_cd), <<"x">>}

\* variant: the query filters by slug only
blog_post_AnyStatus(ps, slug) ==
    LET found == {i \in DOMAIN ps : ps[i].slug = slug}
    IN IF found = {} THEN [posts |-> ps, code |-> 404]
       ELSE LET post == TheOne(found)
            IN [posts |-> [ps EXCEPT ![post].view_count = @ + 1],
                code |-> 200]

\* app.py blog_post: filter_by(slug=slug, status='published').first_or_404(),
\* post.view_count += 1, commit. The slug column is unique, so the query has
\* at most one row
blog_post(ps, slug) ==
    LET found == {i \in DOMAIN ps :
                     ps[i].slug = slug /\ ps[i].status = "published"}
    IN IF found = {} THEN [posts |-> ps, code |-> 404]
       ELSE LET post == TheOne(found)
            IN [posts |-> [ps EXCEPT ![post].view_count = @ + 1],
                code |-> 200]

\* any blog_posts table made of up to MaxViewRows saves, published or draft
InitView ==
    /\ posts \in {SavedTable(saves) :
                     saves \in SeqsUpTo([title : {T_ab, T_a_b, T_cd},
                                         status : {"published", "draft"}],
                                        MaxViewRows)}
    /\ topics = <<>>
    /\ clock = MaxViewRows + 1
    /\ pc = "idle"
    /\ count = 0
    /\ trending = <<>>
    /\ idx = 0
    /\ session_new = <<>>
    /\ attempts = 0
    /\ max_attempts = 0
    /\ generated_posts = <<>>
    /\ topic = 0
    /\ blog_data = NoData
    /\ save_ret = NoSave
    /\ selected = <<>>
    /\ raised = FALSE
    /\ picked = {}
    /\ run_base = 0
    /\ call = NoCall
    /\ custom_topics = NotRead
    /\ affiliate_links = <<>>
    /\ other = NoRun
    /\ blog_content = <<>>

\* GET /blog/<slug>: one request handled from the query to the commit
BlogPostView(slug) ==
    /\ pc = "idle"
    /\ \A i \in DOMAIN posts : posts[i].view_count < MaxViews
    /\ \E r \in {blog_post(posts, slug)} :
          /\ posts' = r.posts
          /\ call' = [op |-> "blog_post", slug |-> slug, before |-> posts,
                      code |-> r.code]
    /\ UNCHANGED <<blog_content, other, affiliate_links, custom_topics,
                   topics, clock, pc, count,
                   trending, idx, session_new, attempts, max_attempts,
                   generated_posts, topic, blog_data, save_ret, selected,
                   raised, picked, run_base>>

NextView == \E slug \in ViewSlugs : BlogPostView(slug)

SpecView == InitView /\ [][NextView]_vars

----------------------------------------------------------------------------
(* Two invocations of the run at the same time *)

MaxOverlapBatch == 2

\* the locals of the invocation that is running
RunLocals ==
    [pc |-> pc, count |-> count, trending |-> trending, idx |-> idx,
     session_new |-> session_new, attempts |-> attempts,
     max_attempts |-> max_attempts, generated_posts |-> generated_posts,
     topic |-> topic, blog_data |-> blog_data, save_ret |-> save_ret,
     selected |-> selected, raised |-> raised, picked |-> picked,
     run_base |-> run_base, custom_topics |-> custom_topics,
     blog_content |-> blog_content]

\* scheduler.py runs the job in its own process and POST /api/generate-blog
\* runs it in a request thread of app.py; run_daily_blog_generation takes no
\* lock, so between two statements of one invocation the other one may
\* proceed. The invocation that waits keeps its locals in other
Switch ==
    /\ pc \notin {"idle"}
    /\ other.pc # "done"
    /\ other' = RunLocals
    /\ pc' = other.pc
    /\ count' = other.count
    /\ trending' = other.trending
    /\ idx' = other.idx
    /\ session_new' = other.session_new
    /\ attempts' = other.attempts
    /\ max_attempts' = other.max_attempts
    /\ generated_posts' = other.generated_posts
    /\ topic' = other.topic
    /\ blog_data' = other.blog_data
    /\ save_ret' = other.save_ret
    /\ selected' = other.selected
    /\ raised' = other.raised
    /\ picked' = other.picked
    /\ run_base' = other.run_base
    /\ custom_topics' = other.custom_topics
    /\ blog_content' = other.blog_content
    /\ UNCHANGED <<affiliate_links, call, topics, posts, clock>>

\* two invocations of run_daily_blog_generation(1), each from its start to its
\* return statement, interleaved in any way
NextOverlap ==
    \/ \E feed \in SeqsUpTo(TopicData, MaxOverlapBatch) : StartRun(1, feed)
    \/ SaveTopic
    \/ \E db_ok \in BOOLEAN : CommitTopics(db_ok)
    \/ NextTopic
    \/ \E raises \in BOOLEAN : CheckCovered(raises)
    \/ GenerateFails
    \/ \E title \in GenTitles : Generate(title)
    \/ \E raises \in BOOLEAN : CheckSimilar(raises)
    \/ \E raises \in BOOLEAN : Inject(raises)
    \/ \E db_ok \in BOOLEAN : SaveStep(db_ok)
    \/ AfterSave
    \/ Switch

SpecOverlap == Init /\ [][NextOverlap]_vars

----------------------------------------------------------------------------
(* Publication with affiliate links stored *)

\* tables of affiliate_links of a site that has some
PublishLinks == {<<A_c>>, <<A_off, A_ab>>, <<A_ab, A_c>>}

InitPublish ==
    /\ affiliate_links \in PublishLinks
    /\ topics = <<>>
    /\ posts = <<>>
    /\ clock = 1
    /\ pc = "idle"
    /\ count = 0
    /\ trending = <<>>
    /\ idx = 0
    /\ session_new = <<>>
    /\ attempts = 0
    /\ max_attempts = 0
    /\ generated_posts = <<>>
    /\ topic = 0
    /\ blog_data = NoData
    /\ save_ret = NoSave
    /\ selected = <<>>
    /\ raised = FALSE
    /\ picked = {}
    /\ run_base = 0
    /\ call = NoCall
    /\ custom_topics = NotRead
    /\ other = NoRun
    /\ blog_content = <<>>

\* direct calls made before the run
MaxDirectCalls == 1

\* calls of generate_single_blog and direct calls of save_blog_post, one at a
\* time, then a daily run of one Article
NextPublish ==
    \/ /\ topics = <<>>
       /\ \E feed \in SeqsUpTo(TopicData, MaxOverlapBatch) : StartRun(1, feed)
    \/ SaveTopic
    \/ \E db_ok \in BOOLEAN : CommitTopics(db_ok)
    \/ NextTopic
    \/ \E raises \in BOOLEAN : CheckCovered(raises)
    \/ GenerateFails
    \/ \E title \in GenTitles : Generate(title)
    \/ \E raises \in BOOLEAN : CheckSimilar(raises)
    \/ \E raises \in BOOLEAN : Inject(raises)
    \/ \E db_ok \in BOOLEAN : SaveStep(db_ok)
    \/ AfterSave
    \/ /\ topics = <<>>
       /\ Len(posts) < MaxDirectCalls
       /\ \E keyword \in Keywords, skip \in BOOLEAN :
             GenerateSingleBlog(keyword, skip)
    \/ /\ topics = <<>>
       /\ Len(posts) < MaxDirectCalls
       /\ \E title \in SaveTitles, status \in {"draft", "published"},
             db_ok \in BOOLEAN :
             SaveBlogPostCall(title, status, db_ok)

SpecPublish == InitPublish /\ [][NextPublish]_vars

----------------------------------------------------------------------------
(* Direct calls of save_trending_topics *)

MaxStoredTopics == 2
MaxSaveBatch == 2

\* rows of trending_topics as earlier runs leave them
StoredTopics ==
    {[keyword |-> d.keyword, trend_score |-> d.trend_score, status |-> st,
      processed_at |-> IF st \in Terminal THEN 1 ELSE 0] :
        d \in TopicData, st \in {"pending", "in_progress", "completed", "skipped"}}

\* any trending_topics table of up to MaxStoredTopics rows, no run in progress
InitTopics ==
    /\ topics \in SeqsUpTo(StoredTopics, MaxStoredTopics)
    /\ posts = <<>>
    /\ clock = 2
    /\ pc = "idle"
    /\ count = 0
    /\ trending = <<>>
    /\ idx = 0
    /\ session_new = <<>>
    /\ attempts = 0
    /\ max_attempts = 0
    /\ generated_posts = <<>>
    /\ topic = 0
    /\ blog_data = NoData
    /\ save_ret = NoSave
    /\ selected = <<>>
    /\ raised = FALSE
    /\ picked = {}
    /\ run_base = 0
    /\ call = NoCall
    /\ custom_topics = NotRead
    /\ affiliate_links = <<>>
    /\ other = NoRun
    /\ blog_content = <<>>

\* variant: the rows added are returned although the commit failed
save_trending_topics_ret_KeepsList(committed, added, db_ok) ==
    [topics |-> IF db_ok THEN committed \o added ELSE committed,
     saved_topics |-> [i \in DOMAIN added |-> Len(committed) + i]]

\* save_trending_topics, lines 103-110: commit and return saved_topics, or roll
\* back and return []. saved_topics holds the ids of the rows
save_trending_topics_ret(committed, added, db_ok) ==
    [topics |-> IF db_ok THEN committed \o added ELSE committed,
     saved_topics |-> IF db_ok
                      THEN [i \in DOMAIN added |-> Len(committed) + i]
                      ELSE <<>>]

\* a caller invokes save_trending_topics(topics): lines 80-81, saved_topics = []
SaveTrendingTopicsCall(batch) ==
    /\ pc = "idle"
    /\ call.op = "none"
    /\ call' = [op |-> "batch", batch |-> batch, before |-> topics]
    /\ trending' = batch
    /\ session_new' = <<>>
    /\ IF batch = <<>>
       THEN idx' = 0 /\ pc' = "commit_topics"
       ELSE idx' = 1 /\ pc' = "saving"
    /\ UNCHANGED <<blog_content, other, affiliate_links, custom_topics, topics,
                   posts, clock, count, attempts, max_attempts,
                   generated_posts, topic, blog_data, save_ret, selected,
                   raised, picked, run_base>>

\* save_trending_topics, lines 103-110, and the return to the caller
SaveTrendingTopicsReturn(db_ok) ==
    /\ pc = "commit_topics"
    /\ call.op = "batch"
    /\ \E r \in {save_trending_topics_ret(topics, session_new, db_ok)} :
          /\ topics' = r.topics
          /\ call' = [op |-> "save_trending_topics", batch |-> call.batch,
                      before |-> call.before, committed |-> db_ok,
                      saved_topics |-> r.saved_topics]
    /\ session_new' = <<>>
    /\ trending' = <<>>
    /\ pc' = "idle"
    /\ UNCHANGED <<blog_content, other, affiliate_links, custom_topics, posts,
                   clock, count, idx, attempts, max_attempts,
                   generated_posts, topic, blog_data, save_ret, selected,
                   raised, picked, run_base>>

\* one call of save_trending_topics over a stored table
NextTopics ==
    \/ \E batch \in SeqsUpTo(TopicData, MaxSaveBatch) : SaveTrendingTopicsCall(batch)
    \/ SaveTopic
    \/ \E db_ok \in BOOLEAN : SaveTrendingTopicsReturn(db_ok)

SpecTopics == InitTopics /\ [][NextTopics]_vars

----------------------------------------------------------------------------
(* Properties *)

IterationPcs == {"check_covered", "generate", "check_similar", "inject", "save",
                 "after_save"}

PendingTopics == {t \in DOMAIN topics : topics[t].status = "pending"}

\* C1: at most one Topic row per keyword has status pending or in_progress,
\* after any sequence of save_trending_topics calls and pipeline runs
C1_OneActiveTopicPerKeyword ==
    \A i, j \in DOMAIN topics :
        (i # j /\ topics[i].keyword = topics[j].keyword)
            => ~(topics[i].status \in Active /\ topics[j].status \in Active)

\* C2: when run_daily_blog_generation returns, every Topic the run picked up
\* is completed or skipped, whatever the outcome of the per-topic steps
C2_PickedTopicsTerminal ==
    pc = "done" => \A t \in picked : topics[t].status \in Terminal

\* a measure of the steps a started run has left: the entries of the batch
\* still to save, the loop iterations still allowed with the steps left in the
\* current one, the custom topics still to try
IterationRank ==
    CASE pc = "check_covered" -> 6
      [] pc = "generate" -> 5
      [] pc = "check_similar" -> 4
      [] pc = "inject" -> 3
      [] pc = "save" -> 2
      [] pc = "after_save" -> 1
      [] OTHER -> 0

RunRank ==
    CASE pc = "saving" -> 8 * Len(trending) + 3 + (Len(trending) - idx)
      [] pc = "commit_topics" -> 8 * Len(trending) + 2
      [] pc \in IterationPcs \cup {"loop"} ->
             8 * (max_attempts - attempts) + IterationRank + 1
      [] pc = "fallback" -> Len(selected) + 1
      [] OTHER -> 0

C3_Bounds ==
    /\ attempts <= max_attempts
    /\ max_attempts <= 3 * count
    /\ Cardinality(picked) <= attempts
    /\ Len(generated_posts) <= count
    /\ pc \in IterationPcs => Len(generated_posts) < count /\ attempts >= 1
    /\ (pc = "done" /\ ~raised) =>
          \/ Len(generated_posts) = count
          \/ attempts = max_attempts
          \/ PendingTopics = {}

C3_Progress ==
    /\ (pc # "idle" /\ pc' # "idle") => RunRank' < RunRank
    /\ pc = "commit_topics" => max_attempts' = Len(trending)
    /\ (pc = "loop" /\ pc' = "check_covered") => attempts' = attempts + 1

\* C3: run_daily_blog_generation(count) terminates: every step of a started
\* run lowers a non-negative measure; its loop makes at most as many
\* iterations as candidates were fetched (at most 3 x count), its body runs
\* only while fewer than count Articles were published, the run ends with
\* count Articles, or the attempts used up, or no pending Topic, and it
\* returns at most count Articles
C3_RunBounded == [](C3_Bounds /\ RunRank >= 0) /\ [][C3_Progress]_vars

\* C3 witness: a run that ended because its attempts were used up, with fewer
\* Articles than requested and a pending Topic left
C3_Witness ==
    /\ pc = "done"
    /\ ~raised
    /\ attempts = max_attempts
    /\ attempts > 0
    /\ Len(generated_posts) < count
    /\ PendingTopics # {}

\* C4: no two stored Articles share a slug, after any sequence of
\* save_blog_post calls, succeeding or failing
C4_SlugUnique ==
    \A i, j \in DOMAIN posts : i # j => posts[i].slug # posts[j].slug

\* C4 witness: two Articles whose titles derive the same slug are stored and a
\* further save was refused by the unique constraint
C4_Witness ==
    /\ \E i, j \in DOMAIN posts :
         i # j /\ create_slug(posts[i].title) = create_slug(posts[j].title)
    /\ save_ret.commit = "integrity"

\* C5: a call of save_blog_post whose derived slug is already stored returns a
\* new Article with slug = derived slug, hyphen, number, distinct from every
\* stored slug, and keeps all earlier rows (the commit not failing for a
\* reason of the database's own)
C5_CollisionNeverAnError ==
    [][(/\ <<posts, save_ret>>' # <<posts, save_ret>>
        /\ save_ret'.called
        /\ save_ret'.existing
        /\ save_ret'.commit # "error")
       => /\ Len(posts') = Len(posts) + 1
          /\ SubSeq(posts', 1, Len(posts)) = posts
          /\ save_ret'.value = Len(posts')
          /\ \E n \in 0..MaxClock :
               posts'[Len(posts')].slug
                   = create_slug(save_ret'.title) \o <<"-">> \o IntToStr(n)
          /\ \A i \in DOMAIN posts : posts[i].slug # posts'[Len(posts')].slug
      ]_vars

\* C6 as stated: every Topic passes through in_progress before it reaches
\* completed or skipped, none goes from pending to a terminal status, and none
\* leaves a terminal status
C6_AlwaysThroughInProgress ==
    [][\A t \in DOMAIN topics :
          /\ topics[t].status = "pending" => topics'[t].status \notin Terminal
          /\ topics[t].status \in Terminal => topics'[t].status = topics[t].status
      ]_vars

\* C6 amended: a Topic reaches completed only from in_progress; it goes from
\* pending to a terminal status only as skipped, by the coverage check finding
\* its keyword covered; from in_progress it stays or becomes terminal; and no
\* Topic leaves a terminal status
C6_Lifecycle ==
    [][\A t \in DOMAIN topics :
          /\ (topics'[t].status = "completed" /\ topics[t].status # "completed")
                => topics[t].status = "in_progress"
          /\ (topics[t].status = "pending" /\ topics'[t].status \in Terminal)
                => /\ topics'[t].status = "skipped"
                   /\ pc = "check_covered"
                   /\ t = topic
                   /\ \E i \in DOMAIN posts :
                        \/ RatioAtLeast(Lower(topics[t].keyword), Lower(posts[i].title), 70)
                        \/ WordOverlapAtLeast60(Lower(topics[t].keyword), Lower(posts[i].title))
          /\ (topics[t].status = "pending" /\ topics'[t].status = "in_progress")
                => pc = "check_covered" /\ t = topic
          /\ topics[t].status = "in_progress" => topics'[t].status # "pending"
          /\ topics[t].status \in Terminal => topics'[t].status = topics[t].status
      ]_vars

\* C6 witness: in one run a Topic was skipped and another one, picked up
\* later, is in_progress
C6_Witness ==
    /\ pc = "generate"
    /\ topics[topic].status = "in_progress"
    /\ \E t \in picked : t # topic /\ topics[t].status = "skipped"

\* Articles persisted in the current run that reference Topic t
RunArticles(t) ==
    {i \in (run_base + 1)..Len(posts) :
        posts[i].topic_id = t /\ posts[i].status = "published"}

\* C7: in a pipeline run a Topic is completed iff exactly one published Article
\* referencing it was persisted in the run, the completed Topics correspond
\* one-to-one to the returned Articles, and a Topic without Article is skipped
C7_CompletedIffPublished ==
    (pc = "done" /\ max_attempts > 0) =>
        /\ \A t \in picked :
             topics[t].status = "completed" <=> Cardinality(RunArticles(t)) = 1
        /\ \A t \in picked : RunArticles(t) = {} => topics[t].status = "skipped"
        /\ \A t \in picked :
             topics[t].status = "completed" =>
                Cardinality({i \in DOMAIN generated_posts :
                                posts[generated_posts[i]].topic_id = t}) = 1
        /\ \A i \in DOMAIN generated_posts :
             /\ posts[generated_posts[i]].topic_id \in picked
             /\ topics[posts[generated_posts[i]].topic_id].status = "completed"

\* C8: when save_blog_post fails to commit, no Article row is added and it
\* returns None; the Topic is then marked skipped, nothing is added to the
\* result, and the run goes back to the loop head, where it picks the next
\* pending Topic if the loop condition holds
C8_SaveFailureSkipsTopic ==
    [][/\ (pc = "save" /\ save_ret'.commit # "ok")
            => /\ posts' = posts
               /\ save_ret'.value = 0
               /\ pc' = "after_save"
       /\ (pc = "after_save" /\ save_ret.value = 0)
            => /\ topics'[topic].status = "skipped"
               /\ generated_posts' = generated_posts
               /\ posts' = posts
               /\ ~raised'
               /\ pc' = "loop"
       /\ (pc = "loop" /\ PendingTopics # {}
             /\ Len(generated_posts) < count /\ attempts < max_attempts)
            => pc' = "check_covered" /\ topic' \in PendingTopics
      ]_vars

\* C8 witness: save_blog_post has failed to commit for a Topic while another
\* Topic is pending and the loop condition holds
C8_Witness ==
    /\ pc = "after_save"
    /\ save_ret.commit = "error"
    /\ save_ret.value = 0
    /\ PendingTopics # {}
    /\ attempts < max_attempts

\* the title is too similar to a stored title: ratio of the lower-cased titles
\* at least 0.75
TooSimilar(title, ps) ==
    \E i \in DOMAIN ps :
        LET a == Lower(title)
            b == Lower(ps[i].title)
        IN IF Len(a) + Len(b) = 0 THEN TRUE
           ELSE 8 * Matches(a, b) >= 3 * (Len(a) + Len(b))

\* C9: when the title check finds the generated title too similar to a stored
\* title, no Article is persisted, the Topic is marked skipped and the run
\* goes back to the loop head; generation only starts for a Topic that was
\* pending, so there is no second generation for it; and no step persists an
\* Article whose title is too similar to an Article stored before the step
C9_SimilarTitleDiscarded ==
    [][/\ (pc = "check_similar" /\ TooSimilar(blog_data, posts) /\ ~raised')
            => /\ posts' = posts
               /\ topics'[topic].status = "skipped"
               /\ pc' = "loop"
       /\ (pc' = "generate" /\ pc # "generate")
            => topics[topic'].status = "pending"
       /\ Len(posts') > Len(posts)
            => ~TooSimilar(posts'[Len(posts')].title, posts)
      ]_vars

\* C9 witness: the draft of a Topic that is not covered has a title too
\* similar to a stored title
C9_Witness ==
    /\ pc = "check_similar"
    /\ TooSimilar(blog_data, posts)
    /\ ~is_topic_covered(topics[topic].keyword, posts)

\* number of entries of the batch with keyword k
Occurrences(batch, k) == Cardinality({i \in DOMAIN batch : batch[i].keyword = k})

\* C10: a batch with the same keyword twice, and no earlier Topic for it,
\* leaves exactly one Topic for the keyword, pending (none when the commit of
\* the batch is refused)
C10_DuplicateInBatchSavedOnce ==
    [][pc = "commit_topics" =>
         \A k \in Keywords :
            (/\ Occurrences(trending, k) >= 2
             /\ \A t \in DOMAIN topics : topics[t].keyword # k)
            => \/ topics' = topics
               \/ /\ Cardinality({t \in DOMAIN topics' : topics'[t].keyword = k}) = 1
                  /\ \A t \in DOMAIN topics' :
                        topics'[t].keyword = k => topics'[t].status = "pending"
      ]_vars

\* C10 witness: the batch held a keyword twice, no Topic had it before, and
\* the batch is about to be committed
C10_Witness ==
    /\ pc = "commit_topics"
    /\ \E k \in Keywords :
         /\ Occurrences(trending, k) >= 2
         /\ \A t \in DOMAIN topics : topics[t].keyword # k
         /\ \E i \in DOMAIN session_new : session_new[i].keyword = k

\* C11: get_next_pending_topic returns a Topic that is pending and whose score
\* is the maximum among the pending Topics, never one that is in_progress,
\* completed or skipped, and returns None exactly when no Topic is pending
C11_NextPendingIsTopPending ==
    [][(pc = "loop" /\ attempts' = attempts + 1)
         => /\ topic' = 0 <=> PendingTopics = {}
            /\ topic' # 0 =>
                 /\ topic' \in DOMAIN topics
                 /\ topics[topic'].status = "pending"
                 /\ \A t \in PendingTopics :
                      topics[t].trend_score <= topics[topic'].trend_score
      ]_vars

\* C11 witness: the Topic returned is pending, another pending Topic has a
\* lower score, and a Topic that is not pending has a score at least as high
C11_Witness ==
    /\ pc = "check_covered"
    /\ topics[topic].status = "pending"
    /\ \E t \in PendingTopics : topics[t].trend_score < topics[topic].trend_score
    /\ \E t \in DOMAIN topics :
         /\ topics[t].status # "pending"
         /\ topics[t].trend_score >= topics[topic].trend_score

\* C12: mark_topic_processed(topic_id, outcome) sets the status of the Topic
\* to outcome and stamps processed_at whatever the status was, a terminal
\* status included, and leaves every other row alone; a second call with the
\* same outcome leaves the status of the first; an unknown topic_id changes
\* nothing
C12_MarkOverwrites ==
    [][(call' # call /\ call'.op = "mark_topic_processed")
         => LET id == call'.topic_id
            IN /\ Len(topics') = Len(topics)
               /\ id \in DOMAIN topics =>
                    /\ topics'[id].status = call'.status
                    /\ topics'[id].processed_at = clock
                    /\ topics'[id].keyword = topics[id].keyword
                    /\ topics'[id].trend_score = topics[id].trend_score
                    /\ \A t \in DOMAIN topics : t # id => topics'[t] = topics[t]
               /\ id \notin DOMAIN topics => topics' = topics
               /\ (/\ call.op = "mark_topic_processed"
                   /\ call.topic_id = id
                   /\ call.status = call'.status
                   /\ id \in DOMAIN topics)
                    => topics'[id].status = topics[id].status
      ]_vars

\* C12 case: the call repeats the previous call at a later time
C12_Repeated ==
    /\ call.op = "mark_topic_processed"
    /\ call.was = call.status
    /\ call.now > 1

\* C12 witness: a completed Topic has been marked skipped, at a later time
\* than it was completed
C12_Witness ==
    /\ call.op = "mark_topic_processed"
    /\ call.was = "completed"
    /\ call.topic_id \in DOMAIN topics
    /\ topics[call.topic_id].status = "skipped"
    /\ topics[call.topic_id].processed_at > 1

\* Topics that are in_progress and not the Topic of the iteration under way
StuckTopics ==
    {t \in DOMAIN topics :
        /\ topics[t].status = "in_progress"
        /\ ~(pc \in IterationPcs /\ topic = t)}

\* a stuck Topic stays in_progress
C13_StaysInProgress ==
    \A t \in StuckTopics : topics'[t].status = "in_progress"

\* get_next_pending_topic does not return a stuck Topic
C13_NeverPicked ==
    (pc = "loop" /\ attempts' = attempts + 1) => topic' \notin StuckTopics

\* save_trending_topics drops a discovery of the keyword of a stuck Topic
C13_DiscoveryDropped ==
    (/\ pc = "saving"
     /\ pc' \in {"saving", "commit_topics"}
     /\ \E t \in StuckTopics : topics[t].keyword = trending[idx].keyword)
        => session_new' = session_new

\* C13: a Topic left in_progress by a run that stopped stays in_progress: no
\* step returns it to pending or marks it, get_next_pending_topic never
\* returns it, and save_trending_topics drops every later discovery of its
\* keyword
C13_StuckInProgress ==
    [][C13_StaysInProgress /\ C13_NeverPicked /\ C13_DiscoveryDropped]_vars

\* the fallback leaves the Topic table alone, reads the list once, returns an
\* empty list without raising when there is no line, and returns the ids of
\* the Articles it persisted and no more than count of them
C14_Common ==
    /\ (pc = "idle" /\ custom_topics'.read) =>
          /\ topics' = topics
          /\ posts' = posts
          /\ ~raised'
          /\ generated_posts' = <<>>
          /\ Len(selected') = Min(count', Len(custom_topics'.lines))
          /\ Len(selected') <= count'
          /\ custom_topics'.lines = <<>> => pc' = "done"
    /\ (pc = "fallback" /\ pc' \in {"fallback", "done"}) =>
          /\ topics' = topics
          /\ ~raised'
          /\ custom_topics' = custom_topics
          /\ \/ /\ posts' = posts
                /\ generated_posts' = generated_posts
             \/ /\ Len(posts') = Len(posts) + 1
                /\ SubSeq(posts', 1, Len(posts)) = posts
                /\ posts'[Len(posts')].title \in GenTitles
                /\ selected # <<>>
                /\ generated_posts' = Append(generated_posts, Len(posts'))
          /\ Len(generated_posts') <= count
          /\ selected # <<>> => selected' = Tail(selected)

\* the selected keywords are pairwise different lines of the list
C14_DistinctKeywords ==
    (pc = "idle" /\ custom_topics'.read) =>
        /\ \A i \in DOMAIN selected' :
             \E p \in DOMAIN custom_topics'.lines : selected'[i] = custom_topics'.lines[p]
        /\ \A i, j \in DOMAIN selected' : i # j => selected'[i] # selected'[j]

\* the selected keywords are the lines at pairwise different positions of the
\* list
C14_DistinctPositions ==
    (pc = "idle" /\ custom_topics'.read) =>
        \E f \in [DOMAIN selected' -> DOMAIN custom_topics'.lines] :
            /\ \A i \in DOMAIN selected' : selected'[i] = custom_topics'.lines[f[i]]
            /\ \A i, j \in DOMAIN selected' : i # j => f[i] # f[j]

\* C14 as stated: with an empty trend feed the run touches no Topic row, runs
\* the single-keyword generation over a random sample of min(count, number of
\* lines) distinct keywords of the local list, returns only the Articles that
\* were persisted, at most count, and an empty list without raising when the
\* list is missing or empty
C14_FallbackDistinctKeywords ==
    [][C14_Common /\ C14_DistinctKeywords]_vars

\* C14 amended: the sample holds the lines at min(count, number of lines)
\* distinct positions of the list, so a keyword the list repeats can be
\* selected more than once
C14_FallbackSample ==
    [][C14_Common /\ C14_DistinctPositions]_vars

\* C14 witness: a fallback run over a list of two lines with count 2 has
\* returned one Article, the generation for the other keyword having failed
C14_Witness ==
    /\ pc = "done"
    /\ custom_topics.read
    /\ Len(custom_topics.lines) = 2
    /\ count = 2
    /\ Len(generated_posts) = 1
    /\ selected = <<>>

\* C15: is_topic_covered("cryptocurrency for beginners") with the single
\* stored Article "The Beginner's Guide to Cryptocurrency" returns
\* covered = True
C15_CryptoExampleCovered ==
    (/\ call.op = "is_topic_covered"
     /\ call.arg = K_crypto
     /\ Len(posts) = 1
     /\ posts[1].title = T_guide)
        => call.flag = TRUE

\* stored Article i has character similarity to keyword K of at least 0.70 or
\* shares at least 0.60 of the words of K
CoversKeyword(K, i) ==
    LET k == Lower(K)
        t == Lower(posts[i].title)
    IN \/ 20 * Matches(k, t) >= 7 * (Len(k) + Len(t))
       \/ /\ Words(k) # {}
          /\ 5 * Cardinality(Words(k) \cap Words(t)) >= 3 * Cardinality(Words(k))

\* C16: is_topic_covered(K) returns (True, A) exactly when some stored Article
\* has similarity >= 0.70 or token overlap >= 0.60 with K, A being such an
\* Article, and (False, None) otherwise, as over an empty table or for a K
\* without words that is similar to no title
C16_CoveredIffSimilarOrOverlap ==
    call.op = "is_topic_covered" =>
        /\ call.flag <=> \E i \in DOMAIN posts : CoversKeyword(call.arg, i)
        /\ call.flag => call.post \in DOMAIN posts /\ CoversKeyword(call.arg, call.post)
        /\ ~call.flag => call.post = 0
        /\ posts = <<>> => ~call.flag

\* C16 witness: the Article returned covers the keyword by its words only,
\* and another stored Article does not cover it
C16_Witness ==
    /\ call.op = "is_topic_covered"
    /\ call.flag
    /\ 20 * Matches(Lower(call.arg), Lower(posts[call.post].title))
          < 7 * (Len(call.arg) + Len(posts[call.post].title))
    /\ \E i \in DOMAIN posts : ~CoversKeyword(call.arg, i)

\* stored Article i has a lower-cased title of similarity at least 0.75 to
\* the lower-cased title
TitleTooSimilar(title, i) ==
    LET a == Lower(title)
        b == Lower(posts[i].title)
    IN 8 * Matches(a, b) >= 3 * (Len(a) + Len(b))

\* C17: is_similar_to_existing(title) returns (True, A) exactly when some
\* stored Article has ratio >= 0.75 of the lower-cased titles, A being such an
\* Article, and (False, None) otherwise; a title that differs from a stored
\* one only in letter case is reported too similar
C17_SimilarIffRatio ==
    call.op = "is_similar_to_existing" =>
        /\ call.flag <=> \E i \in DOMAIN posts : TitleTooSimilar(call.arg, i)
        /\ call.flag => call.post \in DOMAIN posts /\ TitleTooSimilar(call.arg, call.post)
        /\ ~call.flag => call.post = 0
        /\ (\E i \in DOMAIN posts : Lower(posts[i].title) = Lower(call.arg))
              => call.flag

\* C17 witness: the title differs from the Article returned in letter case
\* only, and no stored Article has the title as written
C17_Witness ==
    /\ call.op = "is_similar_to_existing"
    /\ call.flag
    /\ posts[call.post].title # call.arg
    /\ Lower(posts[call.post].title) = Lower(call.arg)
    /\ \A i \in DOMAIN posts : posts[i].title # call.arg

\* C18: a response with its five labels emphasized parses to the same title,
\* meta_description, meta_keywords, excerpt, content and word_count as the
\* same response with plain labels
C18_EmphasizedSameAsPlain ==
    (call.op = "_parse_blog_content" /\ call.parts.labels = "emph") =>
        call.data = _parse_blog_content(Render([call.parts EXCEPT !.labels = "plain"]),
                                        call.data.keyword)


\* the indices where a line that reads --- starts
SeparatorLines(s) ==
    {p \in 1..Len(s) :
        /\ MatchAt(s, Chars("---"), p)
        /\ (p = 1 \/ s[p - 1] = "\n")
        /\ (p + 3 > Len(s) \/ s[p + 3] = "\n")}

\* the content the three strategies select, in their order
StrategyContent(s) ==
    LET label == Find(s, Chars("CONTENT:"), 1)
        excerpt == ParsedExcerpt(s)
        section == Find(s, Chars("EXCERPT:"), 1)
    IN IF label # 0 THEN Strip(SubSeq(s, label + 8, Len(s)))
       ELSE IF SeparatorLines(s) # {}
            THEN Strip(SubSeq(s, MinOf(SeparatorLines(s)) + 3, Len(s)))
       ELSE IF excerpt # <<>>
            THEN Strip(SubSeq(s, Find(s, excerpt, section) + Len(excerpt), Len(s)))
       ELSE <<>>

\* C19: content is everything after the CONTENT label; without a CONTENT
\* label, everything after a --- separator line; without either and with an
\* excerpt parsed, everything after the EXCERPT section; otherwise empty
C19_ContentByThreeStrategies ==
    call.op = "_parse_blog_content" =>
        call.data.content = StrategyContent(call.content)


\* a value without its surrounding whitespace
Trimmed(s) ==
    LET keep == {i \in 1..Len(s) : s[i] \notin Whitespace}
    IN IF keep = {} THEN <<>> ELSE SubSeq(s, MinOf(keep), MaxOf(keep))

\* the number of whitespace-separated tokens, counted by the characters that
\* end one
Tokens(s) ==
    Cardinality({i \in 1..Len(s) :
                    s[i] \notin Whitespace /\ (i = Len(s) \/ s[i + 1] \in Whitespace)})

\* four emphasized labels with one-line values, then a plain CONTENT label
\* and a body
C20_Response ==
    /\ call.op = "_parse_blog_content"
    /\ call.parts.labels = "mixed"
    /\ call.parts.tail = "label"

\* every field is its trimmed value, content the trimmed body and word_count
\* the number of tokens of content
C20_Fields ==
    /\ call.data.title = Trimmed(call.parts.title)
    /\ call.data.meta_description = V_Bar
    /\ call.data.meta_keywords = V_ab
    /\ call.data.excerpt = Trimmed(call.parts.excerpt)
    /\ call.data.content = Trimmed(call.parts.body)
    /\ call.data.word_count = Tokens(call.data.content)
    /\ call.parts.body = B_hello => call.data.word_count = 2

\* the texts that end or start a section when they stand inside a value
SectionMarks ==
    {Chars("TITLE:"), Chars("META_DESCRIPTION:"), Chars("META_KEYWORDS:"),
     Chars("EXCERPT:"), Chars("CONTENT:"), Chars("**CONTENT")}

Contains(s, pat) == Find(s, pat, 1) # 0

\* C20 (as stated): whatever the one-line values are, the response with four
\* emphasized labels and a plain CONTENT label parses to its trimmed values
C20_RoundTripAnyValue == C20_Response => C20_Fields

\* C20: the response with four emphasized labels and a plain CONTENT label
\* parses to its trimmed values, the trimmed body and the token count of the
\* content, provided no value holds a label and the EXCERPT value holds no ---
C20_RoundTrip ==
    (/\ C20_Response
     /\ \A m \in SectionMarks :
            ~Contains(call.parts.title, m) /\ ~Contains(call.parts.excerpt, m)
     /\ ~Contains(call.parts.excerpt, Chars("---")))
    => C20_Fields

\* the response of the round-trip example has been parsed
C20_Witness ==
    /\ C20_Response
    /\ call.parts.title = V_Foo
    /\ call.parts.excerpt = V_Baz
    /\ call.parts.body = B_hello
    /\ call.data.title = V_Foo
    /\ call.data.excerpt = V_Baz
    /\ call.data.content = B_hello
    /\ call.data.word_count = 2


IsAlnum(c) == c \in Range(LowerAlpha) \cup Range(DigitChar)

\* C21: the slug of a title holds only a-z, 0-9 and hyphens, neither starts
\* nor ends with a hyphen, keeps the lower-cased letters and digits of the
\* title in their order, has one hyphen for a run of whitespace, and the slug
\* of "3 Things Nobody Tells You About AI!" is
\* "3-things-nobody-tells-you-about-ai"
C21_SlugShape ==
    call.op = "create_slug" =>
        LET slug == call.slug
            title == call.title
        IN /\ \A i \in DOMAIN slug : IsAlnum(slug[i]) \/ slug[i] = "-"
           /\ slug # <<>> => (slug[1] # "-" /\ slug[Len(slug)] # "-")
           /\ SelectSeq(slug, IsAlnum) = SelectSeq(Lower(title), IsAlnum)
           /\ (\A i \in DOMAIN title : title[i] # "-")
                  => \A i \in 1..(Len(slug) - 1) : ~(slug[i] = "-" /\ slug[i + 1] = "-")
           /\ \A i \in 1..(Len(slug) - 1) :
                  (slug[i] = "-" /\ slug[i + 1] # "-")
                      => \E j \in DOMAIN title : title[j] \in Whitespace \cup {"-"}
           /\ title = T_things => slug = S_things

\* the slug of the example title has been derived
C21_Witness ==
    /\ call.op = "create_slug"
    /\ call.title = T_things
    /\ call.slug = S_things


\* the keyword stands in s at index i as a word of its own, whatever its case
OccursAsWord(s, keyword, i) ==
    /\ i + Len(keyword) - 1 <= Len(s)
    /\ Lower(SubSeq(s, i, i + Len(keyword) - 1)) = Lower(keyword)
    /\ (i = 1 \/ ~IsWordChar(s[i - 1]))
    /\ (i + Len(keyword) > Len(s) \/ ~IsWordChar(s[i + Len(keyword)]))

\* the index of the first occurrence of the keyword in s, 0 = none
FirstOccurrence(s, keyword) ==
    LET m == {i \in 1..Len(s) : OccursAsWord(s, keyword, i)}
    IN IF m = {} THEN 0 ELSE MinOf(m)

\* s with the first occurrences in content of the keywords of the rows ks
\* turned into hyperlinks, the rightmost first
RECURSIVE WithFirstOccurrencesLinked(_, _, _, _)
WithFirstOccurrencesLinked(s, content, links, ks) ==
    IF ks = {} THEN s
    ELSE LET k == CHOOSE x \in ks :
                      \A y \in ks : FirstOccurrence(content, links[y].keyword)
                                    <= FirstOccurrence(content, links[x].keyword)
         IN WithFirstOccurrencesLinked(
                Linked(s, FirstOccurrence(content, links[k].keyword), links[k]),
                content, links, ks \ {k})

\* the rows inject_affiliate_links made a hyperlink for
LinkedRows == {call.injected[k].link : k \in DOMAIN call.injected}

\* C22: the result is the content with the first occurrence of the keyword of
\* at most max_links active rows turned into a hyperlink, one hyperlink per
\* row and nothing else changed; without an active row or an occurrence the
\* content comes back unchanged
C22_OnlyFirstOccurrencesLinked ==
    call.op = "inject_affiliate_links" =>
        /\ Len(call.injected) <= call.max_links
        /\ Cardinality(LinkedRows) = Len(call.injected)
        /\ \A r \in LinkedRows :
              /\ affiliate_links[r].active
              /\ FirstOccurrence(call.content, affiliate_links[r].keyword) # 0
        /\ (\A r \in LinkedRows :
               FirstOccurrence(call.content, affiliate_links[r].keyword) # 0)
           => call.result = WithFirstOccurrencesLinked(call.content, call.content,
                                                       affiliate_links, LinkedRows)
        /\ (\A r \in DOMAIN affiliate_links :
               affiliate_links[r].active
                   => FirstOccurrence(call.content, affiliate_links[r].keyword) = 0)
           => call.result = call.content

\* the length of the hyperlink made by the j-th replacement
HyperlinkLen(j) ==
    LET aff_link == affiliate_links[call.injected[j].link]
    IN Len(aff_link.keyword) + Len(aff_link.url) + 4

\* the index at which the hyperlink of the j-th replacement starts in the
\* content the m-th replacement is made in (j < m): a hyperlink made before it
\* moves it to the right
RECURSIVE HyperlinkStart(_, _)
HyperlinkStart(j, m) ==
    IF m = j + 1 THEN call.injected[j].at
    ELSE HyperlinkStart(j, m - 1)
         + (IF call.injected[m - 1].at < HyperlinkStart(j, m - 1)
            THEN Len(affiliate_links[call.injected[m - 1].link].url) + 4
            ELSE 0)

\* C28: no replacement is made inside the text or the URL of a hyperlink
\* injected earlier in the same call
C28_InjectedLinkNeverAltered ==
    call.op = "inject_affiliate_links" =>
        \A k \in DOMAIN call.injected : \A j \in 1..(k - 1) :
            LET first == call.injected[k].at
                last == first + Len(affiliate_links[call.injected[k].link].keyword) - 1
            IN \/ last < HyperlinkStart(j, k)
               \/ first >= HyperlinkStart(j, k) + HyperlinkLen(j)

\* the published rows of the table before the request that carry its slug
ViewedRows == {i \in DOMAIN call.before :
                  /\ call.before[i].slug = call.slug
                  /\ call.before[i].status = "published"}

\* C23: a detail view of a published Article by its slug raises the view
\* counter of that Article by exactly one and leaves every other Article as it
\* was; a view of a slug that is not stored, or of an Article that is not
\* published, is answered 404 and changes no Article.
C23_ViewCountsOnePublishedArticle ==
    call.op = "blog_post" =>
        /\ DOMAIN posts = DOMAIN call.before
        /\ IF ViewedRows = {}
           THEN call.code = 404 /\ posts = call.before
           ELSE /\ call.code = 200
                /\ \E i \in ViewedRows :
                      /\ ViewedRows = {i}
                      /\ posts[i] = [call.before[i] EXCEPT
                                        !.view_count = @ + 1]
                      /\ \A j \in DOMAIN posts \ {i} :
                            posts[j] = call.before[j]

\* a published Article was viewed a second time while a draft is stored
C23_Witness ==
    /\ call.op = "blog_post"
    /\ call.code = 200
    /\ \E i \in ViewedRows : posts[i].view_count = 2
    /\ \E j \in DOMAIN posts : posts[j].status = "draft"

\* some stored Article covers the keyword of Topic t
TopicCovered(t) == \E i \in DOMAIN posts : CoversKeyword(topics[t].keyword, i)

\* C24: in a pipeline run the coverage check comes before any generation call.
\* A Topic is picked with one attempt; when the check finds it covered it is
\* marked skipped in that step, no draft is generated and no Article is
\* persisted for it, the result and the attempts stay as they are, and the run
\* goes back to the loop head, where it picks the next pending Topic if the
\* loop condition holds; generation is only ever reached for a Topic that no
\* stored Article covers.
C24_CoveredTopicSkippedBeforeGeneration ==
    /\ [](pc \in {"generate", "check_similar", "inject", "save"}
            => ~TopicCovered(topic))
    /\ [][/\ (pc = "loop" /\ pc' = "check_covered")
               => attempts' = attempts + 1 /\ blog_data' = NoData
          /\ (pc = "check_covered" /\ TopicCovered(topic) /\ ~raised')
               => /\ topics'[topic].status = "skipped"
                  /\ posts' = posts
                  /\ blog_data' = NoData
                  /\ save_ret' = NoSave
                  /\ generated_posts' = generated_posts
                  /\ attempts' = attempts
                  /\ pc' = "loop"
          /\ (pc = "loop" /\ PendingTopics # {}
                /\ Len(generated_posts) < count /\ attempts < max_attempts)
               => pc' = "check_covered" /\ topic' \in PendingTopics
         ]_vars

\* C24 witness: the picked Topic is covered, by its words only, by an Article
\* of an earlier run, while another Topic is pending and attempts are left
C24_Witness ==
    /\ pc = "check_covered"
    /\ TopicCovered(topic)
    /\ \A i \in DOMAIN posts :
          ~RatioAtLeast(Lower(topics[topic].keyword), Lower(posts[i].title), 70)
    /\ PendingTopics \ {topic} # {}
    /\ attempts < max_attempts

BothRunsRegular ==
    /\ ~raised /\ ~other.raised
    /\ pc \notin {"idle", "saving", "commit_topics"}
    /\ other.pc \notin {"idle", "saving", "commit_topics"}

\* C26: when two invocations of run_daily_blog_generation overlap, no Topic is
\* picked up by both, and no Topic gets more than one Article
C26_NoTopicPickedByBothRuns ==
    BothRunsRegular =>
        /\ picked \cap other.picked = {}
        /\ \A t \in DOMAIN topics :
              Cardinality({i \in DOMAIN posts : posts[i].topic_id = t}) <= 1

\* C27: within one run the Topics are picked in non-increasing order of
\* score: the Topic picked was pending, no Topic pending at that time, whether
\* stored by this run or by an earlier one, has a higher score, and no Topic
\* picked earlier in the run has a lower score
C27_PickedInScoreOrder ==
    [][(pc = "loop" /\ pc' = "check_covered")
         => /\ topic' \in PendingTopics
            /\ topic' \notin picked
            /\ \A t \in PendingTopics :
                 topics[t].trend_score <= topics[topic'].trend_score
            /\ \A p \in picked :
                 topics[p].trend_score >= topics[topic'].trend_score
      ]_vars

\* C27 witness: the first Topic picked by a run with a batch of one entry is
\* the first of two rows, so it was stored by an earlier run, and the other
\* pending row, for another keyword, has a lower score
C27_Witness ==
    /\ pc = "check_covered"
    /\ attempts = 1
    /\ max_attempts = 1
    /\ Len(topics) = 2
    /\ topic = 1
    /\ topics[2].status = "pending"
    /\ topics[2].keyword # topics[1].keyword
    /\ topics[2].trend_score < topics[1].trend_score

\* Article i is published, stamped, and holds the generated body of its title
\* after the injection of the affiliate links, for some order of the rows
ReturnedAsPublished(i) ==
    /\ i \in DOMAIN posts
    /\ posts[i].status = "published"
    /\ posts[i].published_at # 0
    /\ \E order \in ActiveOrders(affiliate_links) :
          posts[i].content =
             inject_affiliate_links(GeneratedContent(posts[i].title),
                                    PipelineMaxLinks, affiliate_links,
                                    order).content

\* C29: every Article created by save_blog_post has a published timestamp
\* exactly when it was saved with status published; every Article returned by
\* run_daily_blog_generation or by generate_single_blog is published, has a
\* published timestamp, and its content is the generated content after the
\* injection of affiliate links
C29_ReturnedArticlesPublishedWithInjectedContent ==
    /\ \A i \in DOMAIN posts :
          posts[i].published_at # 0 <=> posts[i].status = "published"
    /\ pc = "done" =>
          \A k \in DOMAIN generated_posts :
              ReturnedAsPublished(generated_posts[k])
    /\ (call.op = "generate_single_blog" /\ call.value # 0) =>
          ReturnedAsPublished(call.value)

\* C29 witness: a run returns an Article whose content the injection has
\* changed, while a draft is stored
C29_Witness ==
    /\ pc = "done"
    /\ generated_posts # <<>>
    /\ posts[generated_posts[1]].content
          # GeneratedContent(posts[generated_posts[1]].title)
    /\ \E i \in DOMAIN posts :
          posts[i].status = "draft" /\ posts[i].published_at = 0

\* the rows stored before the call that carry keyword k
RowsBefore(k) == {i \in DOMAIN call.before : call.before[i].keyword = k}

\* the rows stored after the call, and not before, that carry keyword k
RowsAdded(k) ==
    {i \in DOMAIN topics \ DOMAIN call.before : topics[i].keyword = k}

\* C30: save_trending_topics returns exactly the rows it inserted, each of
\* them pending and for a keyword of the batch, and leaves every row stored
\* before as it was; a keyword of the batch whose stored rows are all
\* completed or skipped gets a new pending row, one whose stored rows are all
\* pending or in_progress gets none; when the commit fails the table is as
\* before and the empty list is returned
C30_SaveReturnsNewPendingRows ==
    call.op = "save_trending_topics" =>
        /\ Len(topics) >= Len(call.before)
        /\ SubSeq(topics, 1, Len(call.before)) = call.before
        /\ Range(call.saved_topics) = DOMAIN topics \ DOMAIN call.before
        /\ Len(call.saved_topics) = Len(topics) - Len(call.before)
        /\ \A i \in Range(call.saved_topics) :
              /\ topics[i].status = "pending"
              /\ \E e \in Range(call.batch) :
                    /\ topics[i].keyword = e.keyword
                    /\ topics[i].trend_score = e.trend_score
        /\ call.committed =>
              \A e \in Range(call.batch) :
                  /\ (\A i \in RowsBefore(e.keyword) :
                         call.before[i].status \in Terminal)
                        => RowsAdded(e.keyword) # {}
                  /\ (/\ RowsBefore(e.keyword) # {}
                      /\ \A i \in RowsBefore(e.keyword) :
                            call.before[i].status \in Active)
                        => RowsAdded(e.keyword) = {}
        /\ ~call.committed => topics = call.before /\ call.saved_topics = <<>>

\* C30 witness: the batch held a keyword whose only stored row was completed
\* or skipped, which got a new pending row, and a keyword whose stored row is
\* pending, which got none
C30_Witness ==
    /\ call.op = "save_trending_topics"
    /\ call.committed
    /\ Len(call.saved_topics) = 1
    /\ \E e \in Range(call.batch) :
          /\ RowsBefore(e.keyword) # {}
          /\ \A i \in RowsBefore(e.keyword) : call.before[i].status \in Terminal
          /\ RowsAdded(e.keyword) # {}
    /\ \E e \in Range(call.batch) :
          /\ \E i \in RowsBefore(e.keyword) : call.before[i].status = "pending"
          /\ RowsAdded(e.keyword) = {}

====
